---- MODULE Spec2Model ----
(***************************************************************************)
(* FeedSieve: the feed-reading client of KrE80r/sieve.                     *)
(*                                                                         *)
(* The repository holds several generations of one class, FeedSieve.       *)
(* Three of them are modelled, selected by the variable `variant`:         *)
(*   "reader" : src/js/app.1766840000.js          (the newest class)       *)
(*   "site"   : src/site/js/app.js, second class  (lines 239-894)          *)
(*   "cards"  : src/js/app.js                     (the oldest class)       *)
(*                                                                         *)
(* Values of the feed document are modelled as follows.                    *)
(*   - a text field (title, summary, source_name) is a record              *)
(*     [def, chars]: def = FALSE is JavaScript's undefined, chars is the   *)
(*     string as a sequence of one-character strings;                      *)
(*   - a date field (published_at, processed_at) is [kind, ms]: kind is    *)
(*     "undefined", "date" (a string new Date() parses, to the timestamp   *)
(*     ms in milliseconds) or "garbage" (a non-empty string new Date()     *)
(*     cannot parse);                                                      *)
(*   - rating is [def, n]; labels is [def, seq]; source_type is [def, str];*)
(*     ideas is [def, array, len], len the value of its length property   *)
(*     (0 when it has none);                                              *)
(*     labels holds array = FALSE for a truthy value that is no array;    *)
(*   - id and source_id are [kind, num, str], kind "undefined", "num" or   *)
(*     "str".                                                              *)
(* The local time zone is taken to be UTC without daylight saving, so the  *)
(* local calendar day of a timestamp is its quotient by a day's length.    *)
(***************************************************************************)
EXTENDS Integers, Sequences, FiniteSets, TLC

VARIABLES
    variant,          \* which class of the repository runs in this session
    feed,             \* environment: the items of the document at FEED_URL
    loadState,        \* "loading", "ready" or "error": position of loadFeed()
    items,            \* this.items
    filteredItems,    \* this.filteredItems: references (indices) into items
    currentFilter,    \* this.currentFilter
    currentSource,    \* this.currentSource
    currentCategory,  \* this.currentCategory
    searchQuery,      \* this.searchQuery
    sortBy,           \* this.sortBy
    sources,          \* this.sources
    categories,       \* this.categories
    now,              \* environment: the clock read by new Date()
    viewNow,          \* the clock value the last applyFilters() read
    list,             \* the DOM element #article-list (#card-grid in "cards")
    readItems,        \* this.readItems, in insertion order
    storage,          \* environment: window.localStorage
    modal,            \* the article the last opened .modal-overlay that is
                      \* still open shows, 0 when none is open
    under,            \* the articles of the modals opened before it and
                      \* still open, in the order of their opening
    fetches,          \* the number of calls of fetch(FEED_URL) so far
    applied,          \* history: consecutive runs of applyFilters() on the
                      \* loaded set under one selection (0 none, 2 for more)
    lastMark,         \* history: the last markAsRead/markAsUnread call, its
                      \* argument and the identifiers that were read before it
    clicked,          \* history: the article whose row the last click was on
    sidebar,          \* the .nav-child buttons of the #sources-<type> lists
    counts,           \* the numbers shown in the #count-<key> elements
    otherTab          \* environment: a second FeedSieve on the same
                      \* localStorage, whether it is constructed and its
                      \* this.readItems

vars == <<variant, feed, loadState, items, filteredItems, currentFilter,
          currentSource, currentCategory, searchQuery, sortBy, sources,
          categories, now, viewNow, list, readItems, storage, modal, under,
          fetches, applied, lastMark, clicked, sidebar, counts, otherTab>>

\* what the filter, search and sort handlers leave alone
readVars == <<readItems, storage, modal, under, fetches, lastMark, clicked>>
\* what only loadFeed() writes
domVars == <<sidebar, counts>>

-----------------------------------------------------------------------------
(* Bounds of the model.                                                    *)

\* the longest feed the server holds
MaxItems == 2
\* the most modals open at once
MaxModals == 2
\* the longest feed under the source lists: four articles give one list
\* sources whose counts differ next to sources whose counts are equal
MaxSourceItems == 4

SeqsUpTo(P, n) == UNION {[1..k -> P] : k \in 0..n}

-----------------------------------------------------------------------------
(* Time.                                                                   *)

MsPerHour == 60 * 60 * 1000
MsPerDay == 24 * MsPerHour
\* 7 * 24 * 60 * 60 * 1000 of isThisWeek
WeekMs == 7 * 24 * 60 * 60 * 1000

\* the instants the clock takes in a session: 06:00 on day 10, 01:00 on day 11
T0 == 10 * MsPerDay + 6 * MsPerHour
T1 == 11 * MsPerDay + 1 * MsPerHour
Clock == {T0, T1}

\* a JavaScript number: a value, or NaN
Num(v) == [nan |-> FALSE, v |-> v]
NaN == [nan |-> TRUE, v |-> 0]

\* new Date(x) as its time value: NaN for a string that does not parse
NewDate(field) ==
    IF field.kind = "date" THEN Num(field.ms) ELSE NaN

\* Date.prototype.toDateString(): "Invalid Date", or the local calendar day
toDateString(d) ==
    IF d.nan THEN [valid |-> FALSE, day |-> 0]
    ELSE [valid |-> TRUE, day |-> d.v \div MsPerDay]

\* a date string is truthy unless it is absent
DateTruthy(field) == field.kind # "undefined"

NoDate == [kind |-> "undefined", ms |-> 0]
DateStr(ms) == [kind |-> "date", ms |-> ms]
GarbageDate == [kind |-> "garbage", ms |-> 0]

-----------------------------------------------------------------------------
(* Strings.                                                                *)

NoText == [def |-> FALSE, chars |-> <<>>]
Text(s) == [def |-> TRUE, chars |-> s]

\* String.prototype.toLowerCase(): the strings of the model are ASCII, and
\* the letters A to Z are the characters it changes
UpperCase ==
    <<"A", "B", "C", "D", "E", "F", "G", "H", "I", "J", "K", "L", "M",
      "N", "O", "P", "Q", "R", "S", "T", "U", "V", "W", "X", "Y", "Z">>
LowerCase ==
    <<"a", "b", "c", "d", "e", "f", "g", "h", "i", "j", "k", "l", "m",
      "n", "o", "p", "q", "r", "s", "t", "u", "v", "w", "x", "y", "z">>

LowerChar(c) ==
    IF \E n \in 1..26 : UpperCase[n] = c
    THEN LowerCase[CHOOSE n \in 1..26 : UpperCase[n] = c]
    ELSE c

toLowerCase(s) == [i \in 1..Len(s) |-> LowerChar(s[i])]

\* String.prototype.includes()
includes(s, q) ==
    \E k \in 0..(Len(s) - Len(q)) : \A j \in 1..Len(q) : s[k + j] = q[j]

\* `${x}` of a template literal: undefined prints as "undefined"
TemplateText(t) ==
    IF t.def THEN t.chars ELSE <<"u", "n", "d", "e", "f", "i", "n", "e", "d">>

\* x || '' on a text field
TextOrEmpty(t) == IF t.def /\ t.chars # <<>> THEN t.chars ELSE <<>>

Space == <<" ">>

-----------------------------------------------------------------------------
(* Articles.                                                               *)

NoRating == [def |-> FALSE, n |-> 0]
Rating(n) == [def |-> TRUE, n |-> n]
NoLabels == [def |-> FALSE, array |-> FALSE, seq |-> <<>>]
Labels(s) == [def |-> TRUE, array |-> TRUE, seq |-> s]
\* a truthy labels value that is no array: a number, a string, an object
BadLabels == [def |-> TRUE, array |-> FALSE, seq |-> <<>>]
NoIdeas == [def |-> FALSE, array |-> FALSE, len |-> 0]
Ideas(n) == [def |-> TRUE, array |-> TRUE, len |-> n]
\* a truthy ideas value that is no array and has a length above 0: a
\* non-empty string, an object with a length property
BadIdeas == [def |-> TRUE, array |-> FALSE, len |-> 3]
NoType == [def |-> FALSE, str |-> ""]
Type(s) == [def |-> TRUE, str |-> s]
NoSourceId == [kind |-> "undefined", num |-> 0, str |-> ""]
NumId(n) == [kind |-> "num", num |-> n, str |-> ""]
StrId(s) == [kind |-> "str", num |-> 0, str |-> s]

Article(title, summary, stype, sid, sname, pub, proc, rating, labels) ==
    [id |-> NumId(0), title |-> title, summary |-> summary, source_type |-> stype,
     source_id |-> sid, source_name |-> sname, published_at |-> pub,
     processed_at |-> proc, rating |-> rating, labels |-> labels,
     ideas |-> NoIdeas]

\* the feed generator gives every article its own id: here, its position
WithIds(s) == [i \in 1..Len(s) |-> [s[i] EXCEPT !.id = NumId(i)]]

\* String(n) for the one-digit numbers the model uses
Digits == <<"0", "1", "2", "3", "4", "5", "6", "7", "8", "9">>
NumberToString(n) == Digits[n + 1]

\* String(item.source_id); also the property key sources[type][sourceId]
StringOfId(sid) ==
    CASE sid.kind = "num" -> NumberToString(sid.num)
      [] sid.kind = "str" -> sid.str
      [] OTHER -> "undefined"

\* a changed TypeOrRss: item.source_type without the default
TypeOrRss_noDefault(item) == item.source_type.str

\* item.source_type || 'rss'
TypeOrRss(item) ==
    IF item.source_type.def /\ item.source_type.str # ""
    THEN item.source_type.str ELSE "rss"

\* item.labels || []
LabelsOrEmpty(item) == IF item.labels.def THEN item.labels.seq ELSE <<>>

\* item.rating || 0
RatingOrZero(item) == IF item.rating.def THEN item.rating.n ELSE 0

\* item.published_at || item.processed_at
ItemDate(item) ==
    IF DateTruthy(item.published_at) THEN item.published_at
    ELSE item.processed_at

-----------------------------------------------------------------------------
(* src/js/app.1766840000.js: the filter.                                   *)

NullSource == [isNull |-> TRUE, id |-> "", type |-> ""]
Source(id, type) == [isNull |-> FALSE, id |-> id, type |-> type]
NullCategory == [isNull |-> TRUE, label |-> ""]
Category(label) == [isNull |-> FALSE, label |-> label]

\* truthiness of this.currentSource (an object) and this.currentCategory
SourceTruthy(src) == ~src.isNull
CategoryTruthy(cat) == ~cat.isNull /\ cat.label # ""

\* a changed isToday: a rolling window of 24 hours before now
isToday_rolling(dateStr, t) ==
    IF ~DateTruthy(dateStr) THEN FALSE
    ELSE LET date == NewDate(dateStr)
         IN  ~date.nan /\ date.v <= t /\ t - date.v < MsPerDay

isToday(dateStr, t) ==
    IF ~DateTruthy(dateStr) THEN FALSE
    ELSE toDateString(NewDate(dateStr)) = toDateString(Num(t))

\* a changed isThisWeek: the window starts with the calendar day 7 days ago
isThisWeek_calendar(dateStr, t) ==
    IF ~DateTruthy(dateStr) THEN FALSE
    ELSE LET date == NewDate(dateStr)
         IN  ~date.nan /\ date.v \div MsPerDay >= (t \div MsPerDay) - 7

isThisWeek(dateStr, t) ==
    IF ~DateTruthy(dateStr) THEN FALSE
    ELSE LET date == NewDate(dateStr)
             weekAgo == t - WeekMs
         IN  ~date.nan /\ date.v >= weekAgo

\* ['rss', 'youtube', 'blog', 'nitter'] of applyFilters
TypeFilterTags == {"rss", "youtube", "blog", "nitter"}

\* `${item.title} ${item.summary} ${item.source_name || ''}`.toLowerCase()
searchIn(item) ==
    toLowerCase(TemplateText(item.title) \o Space \o TemplateText(item.summary)
                \o Space \o TextOrEmpty(item.source_name))

\* a changed callback: `else` for `else if`, so that every filter but
\* 'today' takes the week window
FilterKeeps_elseWeek(item, f, src, cat, q, t) ==
    /\ f = "today" => isToday(ItemDate(item), t)
    /\ f # "today" => isThisWeek(ItemDate(item), t)
    /\ f \in TypeFilterTags => TypeOrRss(item) = f
    /\ (f = "source" /\ SourceTruthy(src)) => StringOfId(item.source_id) = src.id
    /\ (f = "category" /\ CategoryTruthy(cat)) =>
           \E k \in 1..Len(LabelsOrEmpty(item)) : LabelsOrEmpty(item)[k] = cat.label
    /\ q # <<>> => includes(searchIn(item), q)

\* a changed callback: item.source_id !== this.currentSource.id, no String()
FilterKeeps_rawId(item, f, src, cat, q, t) ==
    /\ f = "today" => isToday(ItemDate(item), t)
    /\ f = "week" => isThisWeek(ItemDate(item), t)
    /\ f \in TypeFilterTags => TypeOrRss(item) = f
    /\ (f = "source" /\ SourceTruthy(src)) =>
           (item.source_id.kind = "str" /\ item.source_id.str = src.id)
    /\ (f = "category" /\ CategoryTruthy(cat)) =>
           \E k \in 1..Len(LabelsOrEmpty(item)) : LabelsOrEmpty(item)[k] = cat.label
    /\ q # <<>> => includes(searchIn(item), q)

\* a changed callback: 'all' takes the week window as well
FilterKeeps_allWeek(item, f, src, cat, q, t) ==
    /\ f = "today" => isToday(ItemDate(item), t)
    /\ f \in {"week", "all"} => isThisWeek(ItemDate(item), t)
    /\ f \in TypeFilterTags => TypeOrRss(item) = f
    /\ (f = "source" /\ SourceTruthy(src)) => StringOfId(item.source_id) = src.id
    /\ (f = "category" /\ CategoryTruthy(cat)) =>
           \E k \in 1..Len(LabelsOrEmpty(item)) : LabelsOrEmpty(item)[k] = cat.label
    /\ q # <<>> => includes(searchIn(item), q)

\* the callback of this.items.filter(...) in applyFilters
FilterKeeps(item, f, src, cat, q, t) ==
    /\ f = "today" => isToday(ItemDate(item), t)
    /\ f = "week" => isThisWeek(ItemDate(item), t)
    /\ f \in TypeFilterTags => TypeOrRss(item) = f
    /\ (f = "source" /\ SourceTruthy(src)) => StringOfId(item.source_id) = src.id
    /\ (f = "category" /\ CategoryTruthy(cat)) =>
           \E k \in 1..Len(LabelsOrEmpty(item)) : LabelsOrEmpty(item)[k] = cat.label
    /\ q # <<>> => includes(searchIn(item), q)

\* Array.prototype.filter: the kept elements, as references, in array order
RECURSIVE FilterFrom(_, _, _)
FilterFrom(keep, n, k) ==
    IF k > n THEN <<>>
    ELSE (IF keep[k] THEN <<k>> ELSE <<>>) \o FilterFrom(keep, n, k + 1)

-----------------------------------------------------------------------------
(* Array.prototype.sort as V8 runs it on an array shorter than 64: one     *)
(* run is counted (and reversed when strictly descending), the rest is     *)
(* inserted by binary insertion. c[x, y] is the comparator's result on the *)
(* elements x and y, NaN already taken as +0.                              *)

RECURSIVE RunEnd(_, _, _, _)
RunEnd(arr, c, desc, idx) ==
    IF idx > Len(arr) THEN Len(arr)
    ELSE LET order == c[arr[idx], arr[idx - 1]]
         IN  IF (desc /\ order >= 0) \/ (~desc /\ order < 0) THEN idx - 1
             ELSE RunEnd(arr, c, desc, idx + 1)

Reverse(s) == [i \in 1..Len(s) |-> s[Len(s) + 1 - i]]

CountAndMakeRun(arr, c) ==
    LET desc == c[arr[2], arr[1]] < 0
        runLength == RunEnd(arr, c, desc, 3)
    IN  [runLength |-> runLength,
         arr |-> IF desc
                 THEN Reverse(SubSeq(arr, 1, runLength))
                      \o SubSeq(arr, runLength + 1, Len(arr))
                 ELSE arr]

\* left and right count from 0, as in V8
RECURSIVE FindSlot(_, _, _, _, _)
FindSlot(arr, c, pivot, left, right) ==
    IF left >= right THEN left
    ELSE LET mid == left + ((right - left) \div 2)
             order == c[pivot, arr[mid + 1]]
         IN  IF order < 0 THEN FindSlot(arr, c, pivot, left, mid)
             ELSE FindSlot(arr, c, pivot, mid + 1, right)

RECURSIVE BinaryInsertionSort(_, _, _)
BinaryInsertionSort(arr, c, start) ==
    IF start >= Len(arr) THEN arr
    ELSE LET pivot == arr[start + 1]
             left == FindSlot(arr, c, pivot, 0, start)
             moved == SubSeq(arr, 1, left) \o <<pivot>>
                      \o SubSeq(arr, left + 1, start)
                      \o SubSeq(arr, start + 2, Len(arr))
         IN  BinaryInsertionSort(moved, c, start + 1)

ArraySort(arr, c) ==
    IF Len(arr) < 2 THEN arr
    ELSE LET run == CountAndMakeRun(arr, c)
         IN  BinaryInsertionSort(run.arr, c, run.runLength)

\* a - b on numbers that may be NaN, and the comparator's NaN read as +0
NumSub(a, b) == IF a.nan \/ b.nan THEN NaN ELSE Num(a.v - b.v)
CompareResult(x) == IF x.nan THEN 0 ELSE x.v

\* new Date(a.published_at || a.processed_at || 0)
SortDate(item) ==
    IF DateTruthy(ItemDate(item)) THEN NewDate(ItemDate(item)) ELSE Num(0)

\* the comparator of sortItems, called as (a, b)
sortCompare(sb, a, b) ==
    IF sb = "rating" THEN RatingOrZero(b) - RatingOrZero(a)
    ELSE CompareResult(NumSub(SortDate(b), SortDate(a)))

sortItems(its, view, sb) ==
    ArraySort(view, [x \in 1..Len(its), y \in 1..Len(its) |->
                         sortCompare(sb, its[x], its[y])])

\* applyFilters: this.filteredItems after the filter and the sort
applyFilters(its, f, src, cat, q, sb, t) ==
    sortItems(its,
              FilterFrom([k \in 1..Len(its) |-> FilterKeeps(its[k], f, src, cat, q, t)],
                         Len(its), 1),
              sb)

-----------------------------------------------------------------------------
(* src/site/js/app.js, second class: what differs from the class above.    *)

\* ['rss', 'youtube', 'newsletter', 'nitter'] of applyFilters
Site_TypeFilterTags == {"rss", "youtube", "newsletter", "nitter"}

Site_FilterKeeps(item, f, src, cat, q, t) ==
    /\ f = "today" => isToday(ItemDate(item), t)
    /\ f = "week" => isThisWeek(ItemDate(item), t)
    /\ f \in Site_TypeFilterTags => TypeOrRss(item) = f
    /\ (f = "source" /\ SourceTruthy(src)) => StringOfId(item.source_id) = src.id
    /\ (f = "category" /\ CategoryTruthy(cat)) =>
           \E k \in 1..Len(LabelsOrEmpty(item)) : LabelsOrEmpty(item)[k] = cat.label
    /\ q # <<>> => includes(searchIn(item), q)

Site_applyFilters(its, f, src, cat, q, sb, t) ==
    sortItems(its,
              FilterFrom([k \in 1..Len(its) |->
                              Site_FilterKeeps(its[k], f, src, cat, q, t)],
                         Len(its), 1),
              sb)

-----------------------------------------------------------------------------
(* src/js/app.js: the oldest class.                                        *)

\* `${item.title} ${item.summary} ${item.source_name}`.toLowerCase()
Cards_searchIn(item) ==
    toLowerCase(TemplateText(item.title) \o Space \o TemplateText(item.summary)
                \o Space \o TemplateText(item.source_name))

Cards_FilterKeeps(item, f, q) ==
    /\ f # "all" => (item.source_type.def /\ item.source_type.str = f)
    /\ q # <<>> => includes(Cards_searchIn(item), q)

\* item.rating as a number operand: undefined converts to NaN
RatingNumber(item) == IF item.rating.def THEN Num(item.rating.n) ELSE NaN

\* new Date(a.processed_at || a.published_at)
Cards_SortDate(item) ==
    IF DateTruthy(item.processed_at) THEN NewDate(item.processed_at)
    ELSE NewDate(item.published_at)

Cards_sortCompare(sb, a, b) ==
    IF sb = "rating"
    THEN CompareResult(NumSub(RatingNumber(b), RatingNumber(a)))
    ELSE CompareResult(NumSub(Cards_SortDate(b), Cards_SortDate(a)))

Cards_sortItems(its, view, sb) ==
    ArraySort(view, [x \in 1..Len(its), y \in 1..Len(its) |->
                         Cards_sortCompare(sb, its[x], its[y])])

Cards_applyFilters(its, f, q, sb) ==
    Cards_sortItems(its,
                    FilterFrom([k \in 1..Len(its) |-> Cards_FilterKeeps(its[k], f, q)],
                               Len(its), 1),
                    sb)

-----------------------------------------------------------------------------
(* The source index and the category index.                                *)

Unknown == <<"U", "n", "k", "n", "o", "w", "n">>

\* item.source_name || 'Unknown'
NameOrUnknown(item) ==
    IF TextOrEmpty(item.source_name) # <<>> THEN item.source_name.chars ELSE Unknown

\* the position of sources[type][id] among the entries, 0 when there is none
EntryIndex(idx, type, id) ==
    LET hits == {k \in 1..Len(idx) : idx[k].type = type /\ idx[k].id = id}
    IN  IF hits = {} THEN 0 ELSE CHOOSE k \in hits : TRUE

\* a changed buildSourceIndex: count = 1 for count++
RECURSIVE buildSourceIndexFrom_once(_, _, _)
buildSourceIndexFrom_once(its, k, idx) ==
    IF k > Len(its) THEN idx
    ELSE LET type == TypeOrRss(its[k])
             id == StringOfId(its[k].source_id)
             at == EntryIndex(idx, type, id)
             made == IF at = 0
                     THEN Append(idx, [type |-> type, id |-> id,
                                       name |-> NameOrUnknown(its[k]), count |-> 1])
                     ELSE idx
         IN  buildSourceIndexFrom_once(its, k + 1, made)

\* buildSourceIndex: the entries sources[type][id] = {name, count}, in the
\* order in which they are created
RECURSIVE buildSourceIndexFrom(_, _, _)
buildSourceIndexFrom(its, k, idx) ==
    IF k > Len(its) THEN idx
    ELSE LET type == TypeOrRss(its[k])
             id == StringOfId(its[k].source_id)
             at == EntryIndex(idx, type, id)
             made == IF at = 0
                     THEN Append(idx, [type |-> type, id |-> id,
                                       name |-> NameOrUnknown(its[k]), count |-> 0])
                     ELSE idx
             pos == IF at = 0 THEN Len(made) ELSE at
         IN  buildSourceIndexFrom(its, k + 1,
                 [made EXCEPT ![pos].count = made[pos].count + 1])

buildSourceIndex(its) == buildSourceIndexFrom(its, 1, <<>>)

\* labels.forEach(...) throws a TypeError on a value that is no array; the
\* position of the first article on which it does, 0 when there is none
forEachThrowsAt(its) ==
    LET bad == {k \in 1..Len(its) : its[k].labels.def /\ ~its[k].labels.array}
    IN  IF bad = {} THEN 0 ELSE CHOOSE k \in bad : \A h \in bad : k <= h

\* the labels.forEach calls of buildCategoryIndex, in order
RECURSIVE LabelVisits(_, _)
LabelVisits(its, k) ==
    IF k > Len(its) THEN <<>>
    ELSE LabelsOrEmpty(its[k]) \o LabelVisits(its, k + 1)

CategoryIndexOf(cats, label) ==
    LET hits == {k \in 1..Len(cats) : cats[k].label = label}
    IN  IF hits = {} THEN 0 ELSE CHOOSE k \in hits : TRUE

\* buildCategoryIndex: the entries categories[label] = {count}, in creation order
RECURSIVE buildCategoryIndexFrom(_, _, _)
buildCategoryIndexFrom(visits, k, cats) ==
    IF k > Len(visits) THEN cats
    ELSE LET at == CategoryIndexOf(cats, visits[k])
             made == IF at = 0
                     THEN Append(cats, [label |-> visits[k], count |-> 0])
                     ELSE cats
             pos == IF at = 0 THEN Len(made) ELSE at
         IN  buildCategoryIndexFrom(visits, k + 1,
                 [made EXCEPT ![pos].count = made[pos].count + 1])

buildCategoryIndex(its) == buildCategoryIndexFrom(LabelVisits(its, 1), 1, <<>>)

\* this.categories when buildCategoryIndex has thrown at the article `at`
buildCategoryIndexUntil(its, at) == buildCategoryIndex(SubSeq(its, 1, at - 1))

\* const types of renderSourceLists: the types whose sources get a button
RenderTypes == <<"rss", "youtube", "blog", "nitter">>
Site_RenderTypes == <<"rss", "youtube", "newsletter", "nitter">>

Range(s) == {s[k] : k \in 1..Len(s)}

\* the decimal digits of a property key that consists of digits only,
\* <<>> for any other key
KeyDigits(s) ==
    CASE \E n \in 0..9 : Digits[n + 1] = s ->
             <<CHOOSE n \in 0..9 : Digits[n + 1] = s>>
      [] s = "4999999999" -> <<4, 9, 9, 9, 9, 9, 9, 9, 9, 9>>
      [] s = "5000000000" -> <<5, 0, 0, 0, 0, 0, 0, 0, 0, 0>>
      [] OTHER -> <<>>

\* a < b for numbers given by their digits, neither with a leading zero
RECURSIVE DigitsLess(_, _)
DigitsLess(a, b) ==
    IF Len(a) # Len(b) THEN Len(a) < Len(b)
    ELSE IF a = <<>> THEN FALSE
    ELSE IF Head(a) # Head(b) THEN Head(a) < Head(b)
    ELSE DigitsLess(Tail(a), Tail(b))

\* 2^32 - 1: an array index is an integer below it
ArrayIndexEnd == <<4, 2, 9, 4, 9, 6, 7, 2, 9, 5>>

\* Object.keys(typeSources): the keys that are array indices (the canonical
\* decimal form of an integer from 0 to 2^32 - 2) come first, in ascending
\* numeric order, then the other keys in the order of their creation
IsIndexKey(s) ==
    /\ KeyDigits(s) # <<>>
    /\ Len(KeyDigits(s)) = 1 \/ Head(KeyDigits(s)) # 0
    /\ DigitsLess(KeyDigits(s), ArrayIndexEnd)

\* the array-index keys of sources[type] that are not in `done`, ascending
RECURSIVE IndexKeysFrom(_, _, _)
IndexKeysFrom(idx, type, done) ==
    LET rest == {e \in 1..Len(idx) \ done :
                    idx[e].type = type /\ IsIndexKey(idx[e].id)}
        least == CHOOSE e \in rest : \A h \in rest \ {e} :
                     DigitsLess(KeyDigits(idx[e].id), KeyDigits(idx[h].id))
    IN  IF rest = {} THEN <<>>
        ELSE <<least>> \o IndexKeysFrom(idx, type, done \cup {least})

RECURSIVE OtherKeysFrom(_, _, _)
OtherKeysFrom(idx, type, k) ==
    IF k > Len(idx) THEN <<>>
    ELSE (IF idx[k].type = type /\ ~IsIndexKey(idx[k].id) THEN <<k>> ELSE <<>>)
         \o OtherKeysFrom(idx, type, k + 1)

\* a changed Object.keys: every key in the order of its creation
ObjectKeys_insertion(idx, type) ==
    SelectSeq([k \in 1..Len(idx) |-> k], LAMBDA k : idx[k].type = type)

\* the keys of sources[type], each as the position of its entry in idx
ObjectKeys(idx, type) == IndexKeysFrom(idx, type, {}) \o OtherKeysFrom(idx, type, 1)

\* sourceIds.sort((a, b) => typeSources[b].count - typeSources[a].count)
SourceIdsSorted(idx, type) ==
    ArraySort(ObjectKeys(idx, type),
              [x \in 1..Len(idx), y \in 1..Len(idx) |-> idx[y].count - idx[x].count])

\* renderSourceLists: the buttons of the lists #sources-<type>, list after
\* list in the order of `types`, each with its data-source-id, its
\* data-source-type and the number in its .nav-count
RECURSIVE renderSourceListsFrom(_, _, _)
renderSourceListsFrom(idx, types, n) ==
    IF n > Len(types) THEN <<>>
    ELSE LET ids == SourceIdsSorted(idx, types[n])
         IN  [j \in 1..Len(ids) |-> [type |-> types[n], id |-> idx[ids[j]].id,
                                     count |-> idx[ids[j]].count]]
             \o renderSourceListsFrom(idx, types, n + 1)

renderSourceLists(idx) ==
    renderSourceListsFrom(idx, IF variant = "site" THEN Site_RenderTypes
                               ELSE RenderTypes, 1)

\* updateCounts: the numbers written into #count-all, #count-today,
\* #count-week and #count-<type>; tags are the type keys of `counts`
NoCounts == [all |-> 0, today |-> 0, week |-> 0, types |-> << >>]

\* if (counts[type] !== undefined) counts[type]++ over the articles: what it
\* adds to counts[key]; all, today and week are keys of `counts` as the
\* type tags are
CountOfType(its, key) ==
    Cardinality({k \in 1..Len(its) : TypeOrRss(its[k]) = key})

updateCountsOf(its, t, tags) ==
    [all |-> Len(its) + CountOfType(its, "all"),
     today |-> CountOfType(its, "today")
               + Cardinality({k \in 1..Len(its) : isToday(ItemDate(its[k]), t)}),
     week |-> CountOfType(its, "week")
              + Cardinality({k \in 1..Len(its) : isThisWeek(ItemDate(its[k]), t)}),
     types |-> [n \in 1..Len(tags) |-> CountOfType(its, tags[n])]]

updateCounts(its, t) ==
    updateCountsOf(its, t, IF variant = "site" THEN Site_RenderTypes ELSE RenderTypes)

-----------------------------------------------------------------------------
(* The read-state store. localStorage is [avail, payload, keys]: avail is  *)
(* FALSE when reading window.localStorage throws; payload is the value     *)
(* under the key 'readItems', [kind, elems], kind "absent" (getItem gives  *)
(* null), "empty" (the empty text), "array" (the JSON text of the array     *)
(* elems), "badjson" (a non-empty text JSON.parse rejects) or "notarray"   *)
(* (the JSON text of a number or of an object); keys holds the s for which the key 'read_' + s has the value   *)
(* 'true'. The elements of the JSON text of an array are [json, text]:      *)
(* json is "number", "string" or "null", text the digits of the number or  *)
(* the characters of the string.                                           *)

JsonNumber(text) == [json |-> "number", text |-> text]
JsonString(text) == [json |-> "string", text |-> text]
JsonNull == [json |-> "null", text |-> ""]
\* the value JSON.parse makes of null; no article identifier is === to it
NullId == [kind |-> "null", num |-> 0, str |-> ""]

\* a changed JSON.stringify: every element is written as String(element)
JSONstringify_strings(arr) ==
    [k \in 1..Len(arr) |-> JsonString(StringOfId(arr[k]))]

\* JSON.stringify(array): a number prints as its digits, a string in quotes,
\* undefined as null
JSONstringify(arr) ==
    [k \in 1..Len(arr) |->
        CASE arr[k].kind = "num" -> JsonNumber(NumberToString(arr[k].num))
          [] arr[k].kind = "str" -> JsonString(arr[k].str)
          [] OTHER -> JsonNull]

\* JSON.parse(text) of the text of an array
JSONparse(elems) ==
    [k \in 1..Len(elems) |->
        CASE elems[k].json = "number" ->
                 NumId(CHOOSE n \in 0..9 : Digits[n + 1] = elems[k].text)
          [] elems[k].json = "string" -> StrId(elems[k].text)
          [] OTHER -> NullId]

Payload(kind, elems) == [kind |-> kind, elems |-> elems]
EmptyStorage == [avail |-> TRUE, payload |-> Payload("absent", <<>>), keys |-> {}]

\* Set.prototype.add and Set.prototype.delete, the set in insertion order
SetAdd(rs, id) ==
    IF \E k \in 1..Len(rs) : rs[k] = id THEN rs ELSE Append(rs, id)
SetDelete(rs, id) == SelectSeq(rs, LAMBDA e : e # id)

\* new Set(array)
RECURSIVE SetFromArray(_, _)
SetFromArray(elems, rs) ==
    IF elems = <<>> THEN rs
    ELSE SetFromArray(Tail(elems), SetAdd(rs, Head(elems)))

\* new Set(JSON.parse(localStorage.getItem('readItems') || '[]')) of the
\* constructor: the set, or threw = TRUE when the expression throws; null
\* and the empty text are falsy, and '[]' is parsed in their place
ParseReadItems(st) ==
    CASE ~st.avail -> [threw |-> TRUE, set |-> <<>>]
      [] st.payload.kind \in {"absent", "empty"} -> [threw |-> FALSE, set |-> <<>>]
      [] st.payload.kind = "array" ->
             [threw |-> FALSE,
              set |-> SetFromArray(JSONparse(st.payload.elems), <<>>)]
      [] OTHER -> [threw |-> TRUE, set |-> <<>>]

\* localStorage.setItem('readItems', JSON.stringify([...this.readItems]))
SetItemReadItems(st, rs) ==
    [st EXCEPT !.payload = Payload("array", JSONstringify(rs))]

\* src/js/app.1766840000.js: isRead(itemId)
isRead(rs, id) == \E k \in 1..Len(rs) : rs[k] = id

\* src/site/js/app.js, second class: isRead, markAsRead and markAsUnread on
\* 'read_' + itemId; s is the string the concatenation makes of itemId
Site_isRead(st, s) == s \in st.keys
Site_setItem(st, s) == [st EXCEPT !.keys = st.keys \cup {s}]
\* a changed removeItem: localStorage.clear()
Site_removeItem_clear(st, s) == [st EXCEPT !.keys = {}]
Site_removeItem(st, s) == [st EXCEPT !.keys = st.keys \ {s}]

\* parseInt(s) on the strings the model uses: one digit, or no number
parseInt(s) ==
    IF \E n \in 0..9 : Digits[n + 1] = s
    THEN Num(CHOOSE n \in 0..9 : Digits[n + 1] = s)
    ELSE NaN

\* this.items.find(i => i.id === itemId): the position of the first article
\* whose id is the number itemId, 0 when find gives undefined
FindById(its, itemId) ==
    LET hits == {k \in 1..Len(its) :
                    /\ ~itemId.nan
                    /\ its[k].id.kind = "num"
                    /\ its[k].id.num = itemId.v}
    IN  IF hits = {} THEN 0 ELSE CHOOSE k \in hits : \A h \in hits : k <= h

-----------------------------------------------------------------------------
(* Rendering.                                                              *)

InitialList == [kind |-> "initial", rows |-> <<>>, read |-> <<>>]
ErrorList == [kind |-> "error", rows |-> <<>>, read |-> <<>>]

\* whether render() gives the row of an article the class 'read'
RowIsRead(item, rs, st) ==
    CASE variant = "reader" -> isRead(rs, item.id)
      [] variant = "site" -> Site_isRead(st, StringOfId(item.id))
      [] OTHER -> FALSE

\* createArticle and showModal: with ideas = item.ideas || [], the test
\* ideas.length > 0 passes and ideas.slice(0, 3), the ideas.map of
\* renderIdeasChips or the ideas.map of showModal throws a TypeError
IdeasThrow(item) == item.ideas.def /\ ~item.ideas.array /\ item.ideas.len > 0

\* createArticle throws on an article of the view
createArticleThrows(its, view) ==
    variant \in {"reader", "site"} /\ \E j \in 1..Len(view) : IdeasThrow(its[view[j]])

\* src/site/js/app.js, second class: isRead throws in render() when reading
\* window.localStorage throws; the rows are in the list by then
Site_isReadThrows(view, st) == variant = "site" /\ Len(view) > 0 /\ ~st.avail

\* render() throws
renderThrows(its, view, st) ==
    createArticleThrows(its, view) \/ Site_isReadThrows(view, st)

\* render(): the list after the call, old being the list before it. The
\* rows are the filtered items, in order; when createArticle throws the list
\* is left as it was, when isRead throws the rows are there without the
\* class 'read' and without listeners (kind "unbound")
render(old, its, view, rs, st) ==
    IF Len(view) = 0 THEN [kind |-> "empty", rows |-> <<>>, read |-> <<>>]
    ELSE IF createArticleThrows(its, view) THEN old
    ELSE IF Site_isReadThrows(view, st)
    THEN [kind |-> "unbound", rows |-> view,
          read |-> [j \in 1..Len(view) |-> FALSE]]
    ELSE [kind |-> "articles", rows |-> view,
          read |-> [j \in 1..Len(view) |-> RowIsRead(its[view[j]], rs, st)]]

\* this.filteredItems as the running class computes it
View(its, f, src, cat, q, sb, t) ==
    CASE variant = "cards" -> Cards_applyFilters(its, f, q, sb)
      [] variant = "site" -> Site_applyFilters(its, f, src, cat, q, sb, t)
      [] OTHER -> applyFilters(its, f, src, cat, q, sb, t)

\* the effect of a call of applyFilters() once the handler has set the
\* selection to (f, src, cat, q, sb)
Refresh(f, src, cat, q, sb) ==
    /\ filteredItems' = View(items, f, src, cat, q, sb, now)
    /\ list' = render(list, items, filteredItems', readItems, storage)
    /\ viewNow' = now
    /\ applied' = (IF loadState # "ready" THEN 0
                   ELSE IF applied >= 1
                           /\ <<f, src, cat, q>> = <<currentFilter, currentSource,
                                                      currentCategory, searchQuery>>
                        THEN 2 ELSE 1)

-----------------------------------------------------------------------------
(* Inputs of the handlers.                                                 *)

\* data-filter of the timeline buttons bound to handleFilterClick
TimelineFilters == {"today", "week", "all"}
\* data-filter of the type buttons: the source_type tags of the data model
TypeTags == {"rss", "youtube", "newsletter", "blog", "nitter"}
\* the values of #sort-select, and data-sort of the .sort-btn buttons
SortModes == {"date", "rating"}
\* what the user types into #search-input
RawQueries == {<<>>, <<"A", "I">>, <<"u", "n", "d">>}

-----------------------------------------------------------------------------
(* Actions shared by "reader" and "site" (the code is the same in both).   *)

\* a changed loadFeed: the selection is set back to its defaults before the
\* view is computed
loadFeedOk_resets ==
    /\ variant \in {"reader", "site"}
    /\ loadState = "loading"
    /\ items' = feed
    /\ sources' = buildSourceIndex(feed)
    /\ IF forEachThrowsAt(feed) # 0
       THEN /\ categories' = buildCategoryIndexUntil(feed, forEachThrowsAt(feed))
            /\ list' = ErrorList
            /\ loadState' = "error"
            /\ UNCHANGED <<filteredItems, viewNow, applied, sidebar, counts>>
       ELSE /\ categories' = buildCategoryIndex(feed)
            /\ counts' = updateCounts(feed, now)
            /\ sidebar' = renderSourceLists(sources')
            /\ filteredItems' = View(feed, "today", NullSource, NullCategory,
                                     <<>>, "date", now)
            /\ viewNow' = now
            /\ IF renderThrows(feed, filteredItems', storage)
               THEN /\ list' = ErrorList
                    /\ loadState' = "error"
                    /\ applied' = 0
               ELSE /\ list' = render(list, feed, filteredItems', readItems,
                                      storage)
                    /\ loadState' = "ready"
                    /\ applied' = 1
    /\ UNCHANGED readVars
    /\ UNCHANGED otherTab
    /\ currentFilter' = "today"
    /\ searchQuery' = <<>>
    /\ sortBy' = "date"
    /\ UNCHANGED <<variant, feed, currentSource, currentCategory, now>>

\* loadFeed(), the fetch having resolved with a document that parses; when
\* buildCategoryIndex throws, or render() at the end of applyFilters(), the
\* catch of loadFeed calls showError()
loadFeedOk ==
    /\ variant \in {"reader", "site"}
    /\ loadState = "loading"
    /\ items' = feed
    /\ sources' = buildSourceIndex(feed)
    /\ IF forEachThrowsAt(feed) # 0
       THEN /\ categories' = buildCategoryIndexUntil(feed, forEachThrowsAt(feed))
            /\ list' = ErrorList
            /\ loadState' = "error"
            /\ UNCHANGED <<filteredItems, viewNow, applied, sidebar, counts>>
       ELSE /\ categories' = buildCategoryIndex(feed)
            /\ counts' = updateCounts(feed, now)
            /\ sidebar' = renderSourceLists(sources')
            /\ filteredItems' = View(feed, currentFilter, currentSource,
                                     currentCategory, searchQuery, sortBy, now)
            /\ viewNow' = now
            /\ IF renderThrows(feed, filteredItems', storage)
               THEN /\ list' = ErrorList
                    /\ loadState' = "error"
                    /\ applied' = 0
               ELSE /\ list' = render(list, feed, filteredItems', readItems,
                                      storage)
                    /\ loadState' = "ready"
                    /\ applied' = 1
    /\ UNCHANGED readVars
    /\ UNCHANGED otherTab
    /\ UNCHANGED <<variant, feed, currentFilter, currentSource, currentCategory,
                   searchQuery, sortBy, now>>

\* loadFeed(), the fetch having failed: network error, HTTP status, bad JSON
loadFeedError ==
    /\ loadState = "loading"
    /\ loadState' = "error"
    /\ list' = ErrorList
    /\ UNCHANGED readVars
    /\ UNCHANGED domVars
    /\ UNCHANGED otherTab
    /\ UNCHANGED <<variant, feed, items, filteredItems, currentFilter,
                   currentSource, currentCategory, searchQuery, sortBy, sources,
                   categories, now, viewNow, applied>>

\* a changed handler: a click after a failed load fetches the feed again
handleFilterClick_retry ==
    \E f \in TimelineFilters :
        /\ loadState = "error"
        /\ variant \in {"reader", "site"}
        /\ loadState' = "loading"
        /\ fetches' = fetches + 1
        /\ currentFilter' = f
        /\ UNCHANGED domVars
        /\ UNCHANGED otherTab
        /\ UNCHANGED <<variant, feed, items, filteredItems, currentSource,
                       currentCategory, searchQuery, sortBy, sources, categories,
                       now, viewNow, list, readItems, storage, modal, under,
                       applied,
                       lastMark, clicked>>

\* a changed handler: a timeline click also empties the search
handleFilterClick_clearsSearch ==
    \E f \in TimelineFilters :
        /\ loadState # "crashed"
        /\ variant \in {"reader", "site"}
        /\ currentFilter' = f
        /\ currentSource' = NullSource
        /\ currentCategory' = NullCategory
        /\ searchQuery' = <<>>
        /\ Refresh(f, NullSource, NullCategory, <<>>, sortBy)
        /\ UNCHANGED readVars
        /\ UNCHANGED domVars
        /\ UNCHANGED otherTab
        /\ UNCHANGED <<variant, feed, loadState, items, sortBy, sources,
                       categories, now>>

handleFilterClick ==
    \E f \in TimelineFilters :
        /\ loadState # "crashed"
        /\ variant \in {"reader", "site"}
        /\ currentFilter' = f
        /\ currentSource' = NullSource
        /\ currentCategory' = NullCategory
        /\ Refresh(f, NullSource, NullCategory, searchQuery, sortBy)
        /\ UNCHANGED readVars
        /\ UNCHANGED domVars
        /\ UNCHANGED otherTab
        /\ UNCHANGED <<variant, feed, loadState, items, searchQuery, sortBy,
                       sources, categories, now>>

\* loadFeed() has run updateCounts, renderSourceLists and
\* renderCategoriesList: the source and category buttons are in the sidebar
ListsRendered == counts # NoCounts

handleSourceClick ==
    \E k \in 1..Len(sidebar) :
        LET button == Source(sidebar[k].id, sidebar[k].type) IN
        /\ loadState # "crashed"
        /\ variant \in {"reader", "site"}
        /\ currentFilter' = "source"
        /\ currentSource' = button
        /\ currentCategory' = NullCategory
        /\ Refresh("source", button, NullCategory, searchQuery, sortBy)
        /\ UNCHANGED readVars
        /\ UNCHANGED domVars
        /\ UNCHANGED otherTab
        /\ UNCHANGED <<variant, feed, loadState, items, searchQuery, sortBy,
                       sources, categories, now>>

handleCategoryClick ==
    \E k \in 1..Len(categories) :
        LET button == Category(categories[k].label) IN
        /\ loadState # "crashed"
        /\ variant \in {"reader", "site"}
        /\ ListsRendered
        /\ currentFilter' = "category"
        /\ currentCategory' = button
        /\ currentSource' = NullSource
        /\ Refresh("category", NullSource, button, searchQuery, sortBy)
        /\ UNCHANGED readVars
        /\ UNCHANGED domVars
        /\ UNCHANGED otherTab
        /\ UNCHANGED <<variant, feed, loadState, items, searchQuery, sortBy,
                       sources, categories, now>>

\* the 'input' listener of #search-input (the same in every class)
SearchInput ==
    \E raw \in RawQueries :
        /\ loadState # "crashed"
        /\ searchQuery' = toLowerCase(raw)
        /\ Refresh(currentFilter, currentSource, currentCategory,
                   toLowerCase(raw), sortBy)
        /\ UNCHANGED readVars
        /\ UNCHANGED domVars
        /\ UNCHANGED otherTab
        /\ UNCHANGED <<variant, feed, loadState, items, currentFilter,
                       currentSource, currentCategory, sortBy, sources,
                       categories, now>>

\* a changed listener: the current view is sorted again, not recomputed
SortChange_inPlace ==
    \E s \in SortModes :
        /\ loadState # "crashed"
        /\ variant \in {"reader", "site"}
        /\ sortBy' = s
        /\ filteredItems' = sortItems(items, filteredItems, s)
        /\ list' = render(list, items, filteredItems', readItems, storage)
        /\ viewNow' = now
        /\ applied' = applied
        /\ UNCHANGED readVars
        /\ UNCHANGED domVars
        /\ UNCHANGED otherTab
        /\ UNCHANGED <<variant, feed, loadState, items, currentFilter,
                       currentSource, currentCategory, searchQuery, sources,
                       categories, now>>

\* a changed listener: sortItems sorts this.items, and the view is the
\* filter of the sorted list
SortChange_loaded ==
    \E s \in SortModes :
        /\ loadState # "crashed"
        /\ variant \in {"reader", "site"}
        /\ sortBy' = s
        /\ items' = LET order == sortItems(items, [k \in 1..Len(items) |-> k], s)
                     IN  [j \in 1..Len(items) |-> items[order[j]]]
        /\ filteredItems' =
               FilterFrom([k \in 1..Len(items) |->
                              FilterKeeps(items'[k], currentFilter, currentSource,
                                          currentCategory, searchQuery, now)],
                          Len(items), 1)
        /\ list' = render(list, items', filteredItems', readItems, storage)
        /\ viewNow' = now
        /\ applied' = applied
        /\ UNCHANGED readVars
        /\ UNCHANGED domVars
        /\ UNCHANGED otherTab
        /\ UNCHANGED <<variant, feed, loadState, currentFilter, currentSource,
                       currentCategory, searchQuery, sources, categories, now>>

\* the 'change' listener of #sort-select
SortChange ==
    \E s \in SortModes :
        /\ loadState # "crashed"
        /\ variant \in {"reader", "site"}
        /\ sortBy' = s
        /\ Refresh(currentFilter, currentSource, currentCategory, searchQuery, s)
        /\ UNCHANGED readVars
        /\ UNCHANGED domVars
        /\ UNCHANGED otherTab
        /\ UNCHANGED <<variant, feed, loadState, items, currentFilter,
                       currentSource, currentCategory, searchQuery, sources,
                       categories, now>>

\* time passes
Tick ==
    /\ \E t \in Clock : t > now /\ now' = t
    /\ UNCHANGED readVars
    /\ UNCHANGED domVars
    /\ UNCHANGED otherTab
    /\ UNCHANGED <<variant, feed, loadState, items, filteredItems, currentFilter,
                   currentSource, currentCategory, searchQuery, sortBy, sources,
                   categories, viewNow, list, applied>>

-----------------------------------------------------------------------------
(* Actions of one class only.                                              *)

\* src/js/app.1766840000.js
handleParentClick ==
    \E f \in TypeTags :
        /\ loadState # "crashed"
        /\ variant = "reader"
        /\ currentFilter' = f
        /\ currentSource' = NullSource
        /\ currentCategory' = NullCategory
        /\ Refresh(f, NullSource, NullCategory, searchQuery, sortBy)
        /\ UNCHANGED readVars
        /\ UNCHANGED domVars
        /\ UNCHANGED otherTab
        /\ UNCHANGED <<variant, feed, loadState, items, searchQuery, sortBy,
                       sources, categories, now>>

\* src/site/js/app.js, second class: this.currentCategory is left as it is
Site_handleParentClick ==
    \E f \in TypeTags :
        /\ loadState # "crashed"
        /\ variant = "site"
        /\ currentFilter' = f
        /\ currentSource' = NullSource
        /\ Refresh(f, NullSource, currentCategory, searchQuery, sortBy)
        /\ UNCHANGED readVars
        /\ UNCHANGED domVars
        /\ UNCHANGED otherTab
        /\ UNCHANGED <<variant, feed, loadState, items, currentCategory,
                       searchQuery, sortBy, sources, categories, now>>

\* src/js/app.js
Cards_loadFeedOk ==
    /\ variant = "cards"
    /\ loadState = "loading"
    /\ items' = feed
    /\ filteredItems' = View(feed, currentFilter, currentSource, currentCategory,
                             searchQuery, sortBy, now)
    /\ list' = render(list, feed, filteredItems', readItems, storage)
    /\ viewNow' = now
    /\ loadState' = "ready"
    /\ applied' = 1
    /\ UNCHANGED readVars
    /\ UNCHANGED domVars
    /\ UNCHANGED otherTab
    /\ UNCHANGED <<variant, feed, currentFilter, currentSource, currentCategory,
                   searchQuery, sortBy, sources, categories, now>>

Cards_handleFilterClick ==
    \E f \in {"all"} \cup TypeTags :
        /\ loadState # "crashed"
        /\ variant = "cards"
        /\ currentFilter' = f
        /\ Refresh(f, currentSource, currentCategory, searchQuery, sortBy)
        /\ UNCHANGED readVars
        /\ UNCHANGED domVars
        /\ UNCHANGED otherTab
        /\ UNCHANGED <<variant, feed, loadState, items, currentSource,
                       currentCategory, searchQuery, sortBy, sources,
                       categories, now>>

Cards_handleSortClick ==
    \E s \in SortModes :
        /\ loadState # "crashed"
        /\ variant = "cards"
        /\ sortBy' = s
        /\ Refresh(currentFilter, currentSource, currentCategory, searchQuery, s)
        /\ UNCHANGED readVars
        /\ UNCHANGED domVars
        /\ UNCHANGED otherTab
        /\ UNCHANGED <<variant, feed, loadState, items, currentFilter,
                       currentSource, currentCategory, searchQuery, sources,
                       categories, now>>

-----------------------------------------------------------------------------
(* Opening an article, and the read state.                                 *)

\* the identifiers the feeds of the model use, and the strings made of them
Ids == {NumId(7), StrId("7"), StrId("a"), NumId(8), StrId("8"), NumId(9),
        StrId("9")}

\* isRead(id) of the running class
IsReadNow(id) ==
    IF variant = "site" THEN Site_isRead(storage, StringOfId(id))
    ELSE isRead(readItems, id)

\* history: a call markAsRead(id) or markAsUnread(id) is being made, on
\* the identifiers that are read and on what localStorage holds
Mark(op, id) ==
    lastMark' = [op |-> op, id |-> id, before |-> {y \in Ids : IsReadNow(y)},
                 stored |-> storage]

\* the rows in which document.querySelector(`[data-item-id="${s}"]`) finds
\* its element: the first row that carries the string s, if there is one
RowOf(s) ==
    LET hits == {j \in 1..Len(list.rows) : StringOfId(items[list.rows[j]].id) = s}
    IN  {j \in hits : \A h \in hits : j <= h}

\* classList.add('read') / classList.remove('read') on that row
SetRowClass(s, on) ==
    [list EXCEPT !.read = [j \in 1..Len(list.rows) |->
                              IF j \in RowOf(s) THEN on ELSE list.read[j]]]

\* the open .modal-overlay elements, in the order in which they were
\* appended to document.body
Overlays == IF modal = 0 THEN <<>> ELSE Append(under, modal)
SetOverlays(s) ==
    /\ modal' = (IF s = <<>> THEN 0 ELSE s[Len(s)])
    /\ under' = (IF s = <<>> THEN <<>> ELSE SubSeq(s, 1, Len(s) - 1))
\* modal.remove() on the overlay at the position m
RemoveAt(s, m) == SubSeq(s, 1, m - 1) \o SubSeq(s, m + 1, Len(s))

\* src/js/app.1766840000.js: the click listener render() binds to a row;
\* showModal(item) calls markAsRead(item.id) and then appends the modal,
\* unless ideas.map throws in between
ArticleClick ==
    \E j \in 1..Len(list.rows) :
        LET itemId == parseInt(StringOfId(items[list.rows[j]].id))
            k == FindById(items, itemId)
        IN  /\ variant = "reader"
            /\ list.kind = "articles"
            /\ Len(Overlays) < MaxModals
            /\ clicked' = list.rows[j]
            /\ IF k # 0
               THEN /\ readItems' = SetAdd(readItems, items[k].id)
                    /\ storage' = SetItemReadItems(storage, readItems')
                    /\ Mark("read", items[k].id)
                    /\ IF IdeasThrow(items[k]) THEN UNCHANGED <<modal, under>>
                       ELSE SetOverlays(Append(Overlays, k))
               ELSE UNCHANGED <<readItems, storage, modal, under, lastMark>>
            /\ UNCHANGED domVars
            /\ UNCHANGED otherTab
            /\ UNCHANGED <<variant, feed, loadState, items, filteredItems,
                           currentFilter, currentSource, currentCategory,
                           searchQuery, sortBy, sources, categories, now,
                           viewNow, list, fetches, applied>>

\* the .mark-unread-btn of a modal
ModalMarkUnread ==
    \E m \in 1..Len(Overlays) :
        /\ variant = "reader"
        /\ readItems' = SetDelete(readItems, items[Overlays[m]].id)
        /\ storage' = SetItemReadItems(storage, readItems')
        /\ Mark("unread", items[Overlays[m]].id)
        /\ SetOverlays(RemoveAt(Overlays, m))
        /\ list' = render(list, items, filteredItems, readItems', storage')
        /\ clicked' = 0
        /\ UNCHANGED domVars
        /\ UNCHANGED otherTab
        /\ UNCHANGED <<variant, feed, loadState, items, filteredItems,
                       currentFilter, currentSource, currentCategory,
                       searchQuery, sortBy, sources, categories, now, viewNow,
                       fetches, applied>>

\* closeModal of a modal: its close button, a click on the overlay
ModalClose ==
    \E m \in 1..Len(Overlays) :
        /\ variant = "reader"
        /\ SetOverlays(RemoveAt(Overlays, m))
        /\ list' = render(list, items, filteredItems, readItems, storage)
        /\ clicked' = 0
        /\ UNCHANGED domVars
        /\ UNCHANGED otherTab
        /\ UNCHANGED <<variant, feed, loadState, items, filteredItems,
                       currentFilter, currentSource, currentCategory,
                       searchQuery, sortBy, sources, categories, now, viewNow,
                       readItems, storage, fetches, applied, lastMark>>

\* the Escape key: the closeOnEsc listener of every open modal runs closeModal
ModalEscape ==
    /\ variant = "reader"
    /\ modal # 0
    /\ SetOverlays(<<>>)
    /\ list' = render(list, items, filteredItems, readItems, storage)
    /\ clicked' = 0
    /\ UNCHANGED domVars
    /\ UNCHANGED otherTab
    /\ UNCHANGED <<variant, feed, loadState, items, filteredItems, currentFilter,
                   currentSource, currentCategory, searchQuery, sortBy, sources,
                   categories, now, viewNow, readItems, storage, fetches,
                   applied, lastMark>>

\* src/site/js/app.js, second class: the click listener of a row calls
\* markAsRead(itemId) with the number parseInt gave, then showModal(item),
\* in which ideas.map can throw before the modal is appended
Site_ArticleClick ==
    \E j \in 1..Len(list.rows) :
        LET itemId == parseInt(StringOfId(items[list.rows[j]].id))
            k == FindById(items, itemId)
        IN  /\ variant = "site"
            /\ list.kind = "articles"
            /\ Len(Overlays) < MaxModals
            /\ clicked' = list.rows[j]
            /\ IF k # 0
               THEN /\ storage' = Site_setItem(storage, NumberToString(itemId.v))
                    /\ list' = SetRowClass(NumberToString(itemId.v), TRUE)
                    /\ Mark("read", NumId(itemId.v))
                    /\ IF IdeasThrow(items[k]) THEN UNCHANGED <<modal, under>>
                       ELSE SetOverlays(Append(Overlays, k))
               ELSE UNCHANGED <<storage, list, modal, under, lastMark>>
            /\ UNCHANGED domVars
            /\ UNCHANGED otherTab
            /\ UNCHANGED <<variant, feed, loadState, items, filteredItems,
                           currentFilter, currentSource, currentCategory,
                           searchQuery, sortBy, sources, categories, now,
                           viewNow, readItems, fetches, applied>>

\* the click listener of a row's .read-link: markAsRead(dataset.itemId)
Site_ReadLinkClick ==
    \E j \in 1..Len(list.rows) :
        LET itemId == StringOfId(items[list.rows[j]].id)
        IN  /\ variant = "site"
            /\ list.kind = "articles"
            /\ storage' = Site_setItem(storage, itemId)
            /\ list' = SetRowClass(itemId, TRUE)
            /\ Mark("read", StrId(itemId))
            /\ clicked' = 0
            /\ UNCHANGED domVars
            /\ UNCHANGED otherTab
            /\ UNCHANGED <<variant, feed, loadState, items, filteredItems,
                           currentFilter, currentSource, currentCategory,
                           searchQuery, sortBy, sources, categories, now,
                           viewNow, readItems, modal, under, fetches, applied>>

\* the click listener of a row's .mark-unread-btn: markAsUnread(dataset.itemId)
Site_MarkUnreadClick ==
    \E j \in 1..Len(list.rows) :
        LET itemId == StringOfId(items[list.rows[j]].id)
        IN  /\ variant = "site"
            /\ list.kind = "articles"
            /\ storage' = Site_removeItem(storage, itemId)
            /\ list' = SetRowClass(itemId, FALSE)
            /\ Mark("unread", StrId(itemId))
            /\ clicked' = 0
            /\ UNCHANGED domVars
            /\ UNCHANGED otherTab
            /\ UNCHANGED <<variant, feed, loadState, items, filteredItems,
                           currentFilter, currentSource, currentCategory,
                           searchQuery, sortBy, sources, categories, now,
                           viewNow, readItems, modal, under, fetches, applied>>

\* the close handlers of a modal: the list is left as it is
Site_ModalClose ==
    \E m \in 1..Len(Overlays) :
        /\ variant = "site"
        /\ SetOverlays(RemoveAt(Overlays, m))
        /\ clicked' = 0
        /\ UNCHANGED domVars
        /\ UNCHANGED otherTab
        /\ UNCHANGED <<variant, feed, loadState, items, filteredItems,
                       currentFilter, currentSource, currentCategory,
                       searchQuery, sortBy, sources, categories, now, viewNow,
                       list, readItems, storage, fetches, applied, lastMark>>

\* the Escape key: the closeOnEsc listener of every open modal removes it
Site_ModalEscape ==
    /\ variant = "site"
    /\ modal # 0
    /\ SetOverlays(<<>>)
    /\ clicked' = 0
    /\ UNCHANGED domVars
    /\ UNCHANGED otherTab
    /\ UNCHANGED <<variant, feed, loadState, items, filteredItems, currentFilter,
                   currentSource, currentCategory, searchQuery, sortBy, sources,
                   categories, now, viewNow, list, readItems, storage, fetches,
                   applied, lastMark>>

\* the identifiers a second session passes to markAsRead and markAsUnread
OtherIds == {NumId(7), NumId(8), StrId("a")}

\* src/js/app.1766840000.js is opened, or reloaded, in another tab on the
\* same localStorage: its constructor reads 'readItems' into its own Set,
\* once
OtherTabOpens ==
    /\ ~ParseReadItems(storage).threw
    /\ otherTab' = [open |-> TRUE, readItems |-> ParseReadItems(storage).set]
    /\ UNCHANGED <<variant, feed, loadState, items, filteredItems,
                   currentFilter, currentSource, currentCategory, searchQuery,
                   sortBy, sources, categories, now, viewNow, list, readItems,
                   storage, modal, under, fetches, applied, lastMark, clicked,
                   sidebar, counts>>

\* markAsRead(y) of that session: y is added to the Set it holds and the
\* Set is written, whatever localStorage holds at that moment
OtherTabMarkAsRead ==
    \E y \in OtherIds :
        /\ otherTab.open
        /\ otherTab' = [otherTab EXCEPT !.readItems = SetAdd(@, y)]
        /\ storage' = SetItemReadItems(storage, otherTab'.readItems)
        /\ UNCHANGED <<variant, feed, loadState, items, filteredItems,
                       currentFilter, currentSource, currentCategory,
                       searchQuery, sortBy, sources, categories, now, viewNow,
                       list, readItems, modal, under, fetches, applied,
                       lastMark, clicked, sidebar, counts>>

\* markAsUnread(y) of that session
OtherTabMarkAsUnread ==
    \E y \in OtherIds :
        /\ otherTab.open
        /\ otherTab' = [otherTab EXCEPT !.readItems = SetDelete(@, y)]
        /\ storage' = SetItemReadItems(storage, otherTab'.readItems)
        /\ UNCHANGED <<variant, feed, loadState, items, filteredItems,
                       currentFilter, currentSource, currentCategory,
                       searchQuery, sortBy, sources, categories, now, viewNow,
                       list, readItems, modal, under, fetches, applied,
                       lastMark, clicked, sidebar, counts>>

-----------------------------------------------------------------------------
(* Feeds.                                                                  *)

AI == <<"A", "I">>
Day(n) == n * MsPerDay

\* an ordinary article: every field present, published today (at T0)
Plain ==
    Article(Text(AI), Text(<<"x">>), Type("rss"), NumId(1), Text(<<"S">>),
            DateStr(Day(10) + MsPerHour), DateStr(Day(10) + 2 * MsPerHour),
            Rating(1), Labels(<<"AI">>))

\* articles that differ in type, source, labels and in which fields they have
MixedPool ==
    { [Plain EXCEPT !.labels = Labels(<<"AI", "Tech">>), !.rating = Rating(2),
                    !.published_at = DateStr(Day(9))],
      [Plain EXCEPT !.title = NoText, !.summary = NoText, !.source_type = NoType,
                    !.source_id = StrId("1"), !.source_name = NoText,
                    !.published_at = NoDate, !.processed_at = NoDate,
                    !.rating = NoRating, !.labels = NoLabels],
      [Plain EXCEPT !.source_type = Type("blog"), !.source_id = StrId("a"),
                    !.labels = Labels(<<"AI", "AI">>),
                    !.published_at = DateStr(Day(3))],
      [Plain EXCEPT !.source_type = Type("newsletter"), !.source_id = NoSourceId,
                    !.labels = Labels(<<"Tech">>), !.published_at = GarbageDate],
      [Plain EXCEPT !.source_type = Type("youtube"), !.source_id = NumId(2),
                    !.labels = Labels(<<>>)] }

MixedFeeds == {WithIds(s) : s \in SeqsUpTo(MixedPool, MaxItems)}

-----------------------------------------------------------------------------
(* Specifications.                                                         *)

\* the state once new FeedSieve() has returned or thrown: when the
\* constructor of src/js/app.1766840000.js throws on the stored payload,
\* init() is never called: no listener is bound and nothing is fetched
ConstructorThrows(v, st) == v = "reader" /\ ParseReadItems(st).threw

InitFrom(variants, feeds, stores) ==
    /\ variant \in variants
    /\ feed \in feeds
    /\ storage \in stores
    /\ loadState = (IF ConstructorThrows(variant, storage) THEN "crashed"
                    ELSE "loading")
    /\ fetches = (IF ConstructorThrows(variant, storage) THEN 0 ELSE 1)
    /\ readItems = (IF variant = "reader" THEN ParseReadItems(storage).set
                    ELSE <<>>)
    /\ modal = 0
    /\ under = <<>>
    /\ applied = 0
    /\ lastMark = [op |-> "none", id |-> NoSourceId, before |-> {},
                   stored |-> EmptyStorage]
    /\ clicked = 0
    /\ items = <<>>
    /\ filteredItems = <<>>
    /\ currentFilter = (IF variant = "cards" THEN "all" ELSE "today")
    /\ currentSource = NullSource
    /\ currentCategory = NullCategory
    /\ searchQuery = <<>>
    /\ sortBy = "date"
    /\ sources = <<>>
    /\ categories = <<>>
    /\ now = T0
    /\ viewNow = T0
    /\ list = InitialList
    /\ sidebar = <<>>
    /\ counts = NoCounts
    /\ otherTab = [open |-> FALSE, readItems |-> <<>>]

InitWith(variants, feeds) == InitFrom(variants, feeds, {EmptyStorage})

SharedNext ==
    \/ loadFeedOk
    \/ loadFeedError
    \/ handleFilterClick
    \/ handleSourceClick
    \/ handleCategoryClick
    \/ SearchInput
    \/ SortChange
    \/ Tick

CardsNext ==
    \/ Cards_loadFeedOk
    \/ Cards_handleFilterClick
    \/ Cards_handleSortClick

Init == InitWith({"reader", "site", "cards"}, MixedFeeds)
Next == SharedNext \/ handleParentClick \/ Site_handleParentClick \/ CardsNext
Spec == Init /\ [][Next]_vars

\* articles that differ in their dates; the clock starts at T0
DatePool ==
    { [Plain EXCEPT !.published_at = DateStr(T0 - WeekMs)],
      [Plain EXCEPT !.published_at = DateStr(T0 - WeekMs - 1)],
      [Plain EXCEPT !.published_at = DateStr(Day(10) - MsPerHour)],
      [Plain EXCEPT !.published_at = DateStr(Day(10) + 23 * MsPerHour)],
      [Plain EXCEPT !.published_at = NoDate],
      [Plain EXCEPT !.published_at = NoDate, !.processed_at = NoDate],
      [Plain EXCEPT !.published_at = GarbageDate],
      [Plain EXCEPT !.published_at = DateStr(0 - MsPerDay)],
      [Plain EXCEPT !.published_at = DateStr(Day(11) + 2 * MsPerHour)] }

DateFeeds == {WithIds(s) : s \in SeqsUpTo(DatePool, MaxItems)}

\* src/js/app.1766840000.js alone, on feeds that differ in their dates
InitDates == InitWith({"reader"}, DateFeeds)
NextReader == SharedNext \/ handleParentClick
SpecDates == InitDates /\ [][NextReader]_vars

\* articles that differ in their id, one whose labels are no array and an
\* old one whose ideas are no array
ReadPool ==
    { [Plain EXCEPT !.id = NumId(7)],
      [Plain EXCEPT !.id = StrId("7")],
      [Plain EXCEPT !.id = StrId("a")],
      [Plain EXCEPT !.id = NumId(8), !.labels = BadLabels],
      [Plain EXCEPT !.id = NumId(9), !.ideas = BadIdeas,
                    !.published_at = DateStr(Day(3))],
      [Plain EXCEPT !.id = StrId("9")] }

\* the generator gives every article of a feed its own id
ReadFeeds ==
    {s \in SeqsUpTo(ReadPool, MaxItems) :
        \A i, j \in 1..Len(s) : i # j => s[i].id # s[j].id}

\* what localStorage holds when the page is opened
ReadStores ==
    { EmptyStorage,
      [EmptyStorage EXCEPT !.payload = Payload("array", <<JsonNumber("7")>>)],
      [EmptyStorage EXCEPT !.payload = Payload("empty", <<>>)],
      [EmptyStorage EXCEPT !.payload = Payload("badjson", <<>>)],
      [EmptyStorage EXCEPT !.payload = Payload("notarray", <<>>)],
      [EmptyStorage EXCEPT !.avail = FALSE] }

\* the classes that keep a read state, on feeds that differ in their ids;
\* the second class of src/site/js/app.js runs with a localStorage that
\* works or with one that throws
InitRead ==
    /\ InitFrom({"reader", "site"}, ReadFeeds, ReadStores)
    /\ variant = "site" =>
           storage \in {EmptyStorage, [EmptyStorage EXCEPT !.avail = FALSE]}
NextRead ==
    \/ loadFeedOk
    \/ loadFeedError
    \/ handleFilterClick
    \/ handleSourceClick
    \/ handleCategoryClick
    \/ ArticleClick
    \/ ModalMarkUnread
    \/ ModalClose
    \/ ModalEscape
    \/ Site_ArticleClick
    \/ Site_ReadLinkClick
    \/ Site_MarkUnreadClick
    \/ Site_ModalClose
    \/ Site_ModalEscape
SpecRead == InitRead /\ [][NextRead]_vars

\* src/js/app.1766840000.js with a second session on the same localStorage
InitTabs == InitFrom({"reader"}, ReadFeeds, {EmptyStorage})
NextTabs ==
    \/ loadFeedOk
    \/ loadFeedError
    \/ ArticleClick
    \/ ModalMarkUnread
    \/ ModalClose
    \/ ModalEscape
    \/ OtherTabOpens
    \/ OtherTabMarkAsRead
    \/ OtherTabMarkAsUnread
SpecTabs == InitTabs /\ [][NextTabs]_vars

\* a whole session of src/js/app.1766840000.js, every handler bound, on
\* articles with numbers as ids that differ in rating, source and labels
SessionPool ==
    { [Plain EXCEPT !.id = NumId(7)],
      [Plain EXCEPT !.id = NumId(8), !.rating = Rating(2),
                    !.source_id = StrId("a"), !.labels = Labels(<<"Tech">>),
                    !.published_at = DateStr(Day(9))] }

SessionFeeds ==
    {s \in SeqsUpTo(SessionPool, MaxItems) :
        \A i, j \in 1..Len(s) : i # j => s[i].id # s[j].id}

InitSession == InitFrom({"reader"}, SessionFeeds, {EmptyStorage})
NextSession ==
    \/ NextReader
    \/ ArticleClick
    \/ ModalMarkUnread
    \/ ModalClose
    \/ ModalEscape
SpecSession == InitSession /\ [][NextSession]_vars

\* articles that differ in their source: two sources of one type whose ids
\* are array indices, met in descending order of the numbers; one whose id
\* is no number; two whose ids are integers beyond the array indices, given
\* as the strings String() makes of them; one id under two types
SourcePool ==
    { [Plain EXCEPT !.source_id = NumId(2)],
      [Plain EXCEPT !.source_id = NumId(1)],
      [Plain EXCEPT !.source_id = StrId("a")],
      [Plain EXCEPT !.source_id = StrId("5000000000")],
      [Plain EXCEPT !.source_id = StrId("4999999999")],
      [Plain EXCEPT !.source_id = NumId(1), !.source_type = Type("youtube")] }

SourceFeeds == {WithIds(s) : s \in SeqsUpTo(SourcePool, MaxSourceItems)}

\* src/js/app.1766840000.js on feeds that differ in their sources, the
\* search left empty
InitSources == InitWith({"reader"}, SourceFeeds)
NextSources ==
    \/ loadFeedOk
    \/ loadFeedError
    \/ handleFilterClick
    \/ handleSourceClick
SpecSources == InitSources /\ [][NextSources]_vars

\* articles that differ in what updateCounts counts them under: dated today
\* or nine days ago, and with a source_type that is a key of `counts`
CountPool ==
    { Plain,
      [Plain EXCEPT !.published_at = DateStr(Day(1))],
      [Plain EXCEPT !.source_type = Type("today"),
                    !.published_at = DateStr(Day(1))],
      [Plain EXCEPT !.source_type = Type("all")] }

CountFeeds == {WithIds(s) : s \in SeqsUpTo(CountPool, MaxItems)}

\* the classes that show the timeline counts, on those feeds
InitCounts == InitWith({"reader", "site"}, CountFeeds)
NextCounts ==
    \/ loadFeedOk
    \/ loadFeedError
    \/ handleFilterClick
    \/ SearchInput
    \/ Tick
SpecCounts == InitCounts /\ [][NextCounts]_vars

-----------------------------------------------------------------------------
(* What the claims speak of.                                               *)

Ready == loadState = "ready"
NoSearch == searchQuery = <<>>

\* the loaded article k is in the view; it is there exactly once
InView(k) == \E j \in 1..Len(filteredItems) : filteredItems[j] = k
Once(k) == Cardinality({j \in 1..Len(filteredItems) : filteredItems[j] = k}) = 1
NoDuplicates == \A k \in 1..Len(items) : InView(k) => Once(k)

\* the effective date of an article: published_at, else processed_at
Effective(item) ==
    IF item.published_at.kind # "undefined" THEN item.published_at
    ELSE item.processed_at
Dated(item) == Effective(item).kind = "date"
CalendarDay(ms) == ms \div (24 * 60 * 60 * 1000)

-----------------------------------------------------------------------------
(* C1.  In src/js/app.1766840000.js, once the feed has loaded, the view is *)
(* always the complete items list filtered by the current selection        *)
(* (currentFilter, currentSource, currentCategory, searchQuery) and then   *)
(* sorted by sortBy, as of the time of the last action; what the view held *)
(* before, and the order of the earlier actions, play no part.             *)
C1_ViewIsRecomputed ==
    (variant = "reader" /\ Ready) =>
        filteredItems = applyFilters(items, currentFilter, currentSource,
                                     currentCategory, searchQuery, sortBy, viewNow)

\* after a source click, a search and a change of sort: some articles are
\* kept and some are not
C1_Witness ==
    /\ variant = "reader" /\ Ready
    /\ currentFilter = "source" /\ searchQuery # <<>> /\ sortBy = "rating"
    /\ Len(filteredItems) >= 1 /\ Len(filteredItems) < Len(items)

(* C2.  Under currentFilter = 'all' with an empty search every loaded      *)
(* article is in the view exactly once, whatever fields it has or lacks.   *)
C2_AllKeepsEverything ==
    (Ready /\ currentFilter = "all" /\ NoSearch) =>
        /\ Len(filteredItems) = Len(items)
        /\ \A k \in 1..Len(items) : Once(k)

\* 'all' was selected on a feed that holds an article with no date, no
\* type, no labels and no texts, and one whose date does not parse
C2_Witness ==
    /\ variant = "reader" /\ Ready /\ currentFilter = "all" /\ NoSearch
    /\ Len(items) = 2
    /\ \E k \in 1..Len(items) :
           ~items[k].title.def /\ ~items[k].labels.def /\ ~items[k].source_type.def
           /\ Effective(items[k]).kind = "undefined"
    /\ \E k \in 1..Len(items) : Effective(items[k]).kind = "garbage"

(* C3.  Under currentFilter = 'today' with an empty search, an article is  *)
(* in the view if and only if its effective date lies on the local         *)
(* calendar day of the current time: not a window of 24 hours.             *)
C3_TodayIsCalendarDay ==
    (variant = "reader" /\ Ready /\ currentFilter = "today" /\ NoSearch
     /\ viewNow = now) =>
        /\ NoDuplicates
        /\ \A k \in 1..Len(items) :
               InView(k) <=> (/\ Dated(items[k])
                              /\ CalendarDay(Effective(items[k]).ms) = CalendarDay(now))

\* the view leaves out an article dated less than 24 hours ago, on the day
\* before, and keeps one dated later today than now
C3_Witness ==
    /\ variant = "reader" /\ Ready /\ currentFilter = "today" /\ NoSearch
    /\ viewNow = now
    /\ \E k \in 1..Len(items) :
           /\ Dated(items[k]) /\ ~InView(k)
           /\ Effective(items[k]).ms < now
           /\ now - Effective(items[k]).ms < 24 * 60 * 60 * 1000
    /\ \E k \in 1..Len(items) :
           Dated(items[k]) /\ InView(k) /\ Effective(items[k]).ms > now

(* C4.  Under currentFilter = 'week' with an empty search, an article is   *)
(* in the view if and only if its effective date is at or after the        *)
(* current time less 7 x 24 hours: a window that rolls with the clock.     *)
C4_WeekIsRolling ==
    (variant = "reader" /\ Ready /\ currentFilter = "week" /\ NoSearch
     /\ viewNow = now) =>
        /\ NoDuplicates
        /\ \A k \in 1..Len(items) :
               InView(k) <=> (/\ Dated(items[k])
                              /\ Effective(items[k]).ms >= now - 7 * 24 * 60 * 60 * 1000)

\* the view keeps an article dated exactly 7 x 24 hours ago and leaves out
\* one dated a millisecond earlier, on the same calendar day
C4_Witness ==
    /\ variant = "reader" /\ Ready /\ currentFilter = "week" /\ NoSearch
    /\ viewNow = now
    /\ \E k \in 1..Len(items) :
           /\ Dated(items[k]) /\ InView(k)
           /\ Effective(items[k]).ms = now - 7 * 24 * 60 * 60 * 1000
    /\ \E k \in 1..Len(items) :
           /\ Dated(items[k]) /\ ~InView(k)
           /\ Effective(items[k]).ms = now - 7 * 24 * 60 * 60 * 1000 - 1

\* the source_type of an article, 'rss' when it has none
TypeOf(item) ==
    IF item.source_type.def THEN item.source_type.str ELSE "rss"

(* C5, as claimed.  When currentFilter is any of rss, youtube, newsletter, *)
(* blog, nitter and the search is empty, the view holds exactly the        *)
(* articles of that source_type ('rss' when absent).                       *)
C5_Original ==
    (variant \in {"reader", "site"} /\ Ready /\ NoSearch
     /\ currentFilter \in {"rss", "youtube", "newsletter", "blog", "nitter"}) =>
        \A k \in 1..Len(items) : InView(k) <=> TypeOf(items[k]) = currentFilter

(* C5, amended.  Each class restricts the view for the four tags its       *)
(* applyFilters lists: rss, youtube, blog, nitter in                       *)
(* src/js/app.1766840000.js and rss, youtube, newsletter, nitter in the    *)
(* second class of src/site/js/app.js. Under one of them the view holds    *)
(* exactly the articles of that source_type ('rss' when absent), each      *)
(* once; under the fifth tag (newsletter, respectively blog) no article    *)
(* is left out.                                                            *)
C5_KnownTypeTags ==
    (variant \in {"reader", "site"} /\ Ready /\ NoSearch
     /\ currentFilter \in {"rss", "youtube", "newsletter", "blog", "nitter"}) =>
        LET listed == IF variant = "reader"
                      THEN {"rss", "youtube", "blog", "nitter"}
                      ELSE {"rss", "youtube", "newsletter", "nitter"}
        IN  /\ NoDuplicates
            /\ \A k \in 1..Len(items) :
                   InView(k) <=> (currentFilter \in listed =>
                                      TypeOf(items[k]) = currentFilter)

\* 'rss' is selected: an article with no source_type is kept and an
\* article of another type is left out
C5_Witness ==
    /\ variant = "reader" /\ Ready /\ NoSearch /\ currentFilter = "rss"
    /\ \E k \in 1..Len(items) : ~items[k].source_type.def /\ InView(k)
    /\ \E k \in 1..Len(items) : items[k].source_type.def /\ ~InView(k)

\* source_id converted to a string
IdString(sid) ==
    CASE sid.kind = "str" -> sid.str
      [] sid.kind = "num" /\ sid.num = 1 -> "1"
      [] sid.kind = "num" /\ sid.num = 2 -> "2"
      [] OTHER -> "undefined"

(* C6.  Under currentFilter = 'source' with currentSource set and an empty *)
(* search, the view holds exactly the articles whose source_id, converted  *)
(* to a string, is currentSource.id: a numeric source_id matches the       *)
(* string the clicked sidebar entry carries.                               *)
C6_SourceByStringId ==
    (variant \in {"reader", "site"} /\ Ready /\ NoSearch
     /\ currentFilter = "source" /\ ~currentSource.isNull) =>
        /\ NoDuplicates
        /\ \A k \in 1..Len(items) :
               InView(k) <=> IdString(items[k].source_id) = currentSource.id

\* the entry "1" was clicked: the view keeps an article whose source_id is
\* the number 1 and leaves out an article of another source
C6_Witness ==
    /\ variant = "reader" /\ Ready /\ NoSearch
    /\ currentFilter = "source" /\ currentSource.id = "1"
    /\ \E k \in 1..Len(items) :
           items[k].source_id.kind = "num" /\ items[k].source_id.num = 1 /\ InView(k)
    /\ \E k \in 1..Len(items) : ~InView(k)

\* the labels of an article, none when the field is absent
LabelSet(item) ==
    IF item.labels.def THEN {item.labels.seq[n] : n \in 1..Len(item.labels.seq)}
    ELSE {}

(* C7.  An article appears in the category view (empty search) of each of  *)
(* its labels, and for every label L the category index count of L is the  *)
(* number of loaded articles whose labels contain L.                       *)
C7_CategoryCounts ==
    (variant \in {"reader", "site"} /\ Ready) =>
        /\ \A c \in 1..Len(categories) :
               categories[c].count =
                   Cardinality({k \in 1..Len(items) :
                                    categories[c].label \in LabelSet(items[k])})
        /\ (currentFilter = "category" /\ ~currentCategory.isNull /\ NoSearch) =>
               \A k \in 1..Len(items) :
                   InView(k) <=> currentCategory.label \in LabelSet(items[k])

\* a text field as the claim reads it: the empty string when absent
TextOf(t) == IF t.def THEN t.chars ELSE <<>>
Lowered(s) ==
    [i \in 1..Len(s) |->
        CASE s[i] = "A" -> "a" [] s[i] = "I" -> "i" [] s[i] = "S" -> "s"
          [] OTHER -> s[i]]
Concatenation(item) ==
    Lowered(TextOf(item.title) \o <<" ">> \o TextOf(item.summary) \o <<" ">>
            \o TextOf(item.source_name))
IsSubstring(q, s) ==
    \E k \in 0..(Len(s) - Len(q)) : SubSeq(s, k + 1, k + Len(q)) = q

(* C8.  With a search query, an article passes the search stage if and     *)
(* only if the query is a case-insensitive substring of its title, summary *)
(* and source_name put together, an absent field counting as the empty     *)
(* string: no absent field makes a query match.                            *)
C8_SearchIgnoresAbsentFields ==
    (variant = "reader" /\ Ready /\ searchQuery # <<>> /\ currentFilter = "all") =>
        \A k \in 1..Len(items) :
            InView(k) <=> IsSubstring(searchQuery, Concatenation(items[k]))

\* the rating of an article, 0 when it has none
RatingOf(item) == IF item.rating.def THEN item.rating.n ELSE 0

(* C9.  With sortBy = 'rating' the view is in non-increasing order of      *)
(* rating, an absent rating counting as 0, and articles of equal rating    *)
(* keep the order they have in the loaded list.                            *)
C9_RatingOrder ==
    (Ready /\ sortBy = "rating") =>
        \A i, j \in 1..Len(filteredItems) :
            i < j =>
                /\ RatingOf(items[filteredItems[i]]) >= RatingOf(items[filteredItems[j]])
                /\ RatingOf(items[filteredItems[i]]) = RatingOf(items[filteredItems[j]])
                       => filteredItems[i] < filteredItems[j]

(* C10.  With sortBy = 'date' the view is in non-increasing order of       *)
(* effective date; an article with neither date comes after every dated    *)
(* article, whatever that article's date; articles of equal effective date *)
(* keep the order they have in the loaded list. (Articles whose date does  *)
(* not parse are left out of the comparison here.)                         *)
C10_DateOrder ==
    (variant = "reader" /\ Ready /\ sortBy = "date") =>
        \A i, j \in 1..Len(filteredItems) :
            LET a == Effective(items[filteredItems[i]])
                b == Effective(items[filteredItems[j]])
            IN  (i < j /\ a.kind # "garbage" /\ b.kind # "garbage") =>
                    /\ a.kind = "undefined" => b.kind = "undefined"
                    /\ (a.kind = "date" /\ b.kind = "date") => a.ms >= b.ms
                    /\ (a.kind = b.kind /\ a.ms = b.ms)
                           => filteredItems[i] < filteredItems[j]

\* published_at of an article, when it is present and parses
Published(item) == item.published_at.kind = "date"

(* C11.  In every variant the date sort goes by published_at when it is    *)
(* present, never by processed_at: of two articles in the view whose       *)
(* published_at is present and parses, the one published later comes       *)
(* first when sortBy = 'date'.                                             *)
C11_PublishedFirst ==
    (Ready /\ sortBy = "date") =>
        \A i, j \in 1..Len(filteredItems) :
            LET a == items[filteredItems[i]]
                b == items[filteredItems[j]]
            IN  (i < j /\ Published(a) /\ Published(b)) =>
                    a.published_at.ms >= b.published_at.ms

\* the effective date of an article is present and does not parse
Unparseable(item) == Effective(item).kind = "garbage"

(* C12.  An article whose effective date is present but does not parse is  *)
(* left out under 'today' and 'week', and with sortBy = 'date' it stands   *)
(* after every article of the view whose effective date parses.            *)
C12_UnparseableLast ==
    (variant = "reader" /\ Ready) =>
        /\ currentFilter \in {"today", "week"} =>
               \A k \in 1..Len(items) : Unparseable(items[k]) => ~InView(k)
        /\ sortBy = "date" =>
               \A i, j \in 1..Len(filteredItems) :
                   (i < j /\ Unparseable(items[filteredItems[i]]))
                       => ~Dated(items[filteredItems[j]])

\* the articles of the view, as a set
Subset(view) == {view[j] : j \in 1..Len(view)}

(* C13, as claimed.  When applyFilters runs again on the loaded set under  *)
(* an unchanged currentFilter, currentSource, currentCategory and          *)
(* searchQuery, it yields the subset of articles the run before yielded.   *)
C13_Original ==
    [][(Ready /\ applied >= 1 /\ applied' = 2)
           => Subset(filteredItems') = Subset(filteredItems)]_vars

(* C13, amended.  A run of applyFilters under an unchanged selection       *)
(* yields the subset the run before yielded when currentFilter is neither  *)
(* 'today' nor 'week', or when the clock reads at the second run what it   *)
(* read at the first: under 'today' and 'week' the subset depends on the   *)
(* time of the run.                                                        *)
C13_SameSubsetAtSameTime ==
    [][(/\ Ready /\ applied >= 1 /\ applied' = 2
        /\ (currentFilter \in {"today", "week"} => viewNow' = viewNow))
           => Subset(filteredItems') = Subset(filteredItems)]_vars

\* applyFilters has run twice in a row under 'today', and the subset keeps
\* some articles and leaves some out
C13_Witness ==
    /\ variant = "reader" /\ Ready /\ applied = 2
    /\ currentFilter = "today"
    /\ Len(filteredItems) >= 1 /\ Len(filteredItems) < Len(items)

\* an identifier as a string
StringForm(id) ==
    CASE id.kind = "str" -> id.str
      [] id.kind = "num" /\ id.num = 7 -> "7"
      [] id.kind = "num" /\ id.num = 8 -> "8"
      [] id.kind = "num" /\ id.num = 9 -> "9"
      [] OTHER -> "undefined"

\* after the last mark operation, on x: isRead(x) is as the operation says
MarkTakesEffect ==
    /\ lastMark.op = "read" => IsReadNow(lastMark.id)
    /\ lastMark.op = "unread" => ~IsReadNow(lastMark.id)

(* C14, as claimed.  After markAsRead(x), isRead(x) is true; after         *)
(* markAsUnread(x), isRead(x) is false; and the operation leaves isRead(y) *)
(* as it was for every other identifier y, so that marking a read x or     *)
(* unmarking an unread x changes nothing.                                  *)
C14_Original ==
    (lastMark.op # "none") =>
        /\ MarkTakesEffect
        /\ \A y \in Ids :
               y # lastMark.id => (IsReadNow(y) <=> y \in lastMark.before)

(* C14, amended.  After markAsRead(x), isRead(x) is true; after            *)
(* markAsUnread(x), isRead(x) is false; the operation leaves isRead(y) as  *)
(* it was for every identifier y other than x in                           *)
(* src/js/app.1766840000.js, and for every y whose string form differs     *)
(* from that of x in the second class of src/site/js/app.js, whose store   *)
(* is keyed by 'read_' + the identifier: there the number 7 and the        *)
(* string '7' are one identifier. Marking a read x or unmarking an unread  *)
(* x changes no isRead.                                                    *)
C14_MarkRoundTrip ==
    (lastMark.op # "none") =>
        /\ MarkTakesEffect
        /\ \A y \in Ids :
               (IF variant = "site"
                THEN StringForm(y) # StringForm(lastMark.id)
                ELSE y # lastMark.id)
                   => (IsReadNow(y) <=> y \in lastMark.before)
        /\ ((lastMark.op = "read") <=> (lastMark.id \in lastMark.before)) =>
               \A y \in Ids : IsReadNow(y) <=> y \in lastMark.before

\* markAsUnread was called on an identifier that was not read, while
\* another identifier was read
C14_Witness ==
    /\ lastMark.op = "unread"
    /\ lastMark.id \notin lastMark.before
    /\ \E y \in lastMark.before : StringForm(y) # StringForm(lastMark.id)

(* C15.  When the payload under the storage key is not valid JSON or not   *)
(* an array, or localStorage is unavailable, the session still starts and  *)
(* loads the feed, and every article is reported unread.                   *)
C15_FailSoft ==
    (~storage.avail \/ storage.payload.kind \in {"badjson", "notarray"}) =>
        /\ loadState # "crashed"
        /\ fetches = 1
        /\ \A j \in 1..Len(list.read) : ~list.read[j]

(* C16.  Whether its id is an integer or a string, a click on the row of   *)
(* a loaded article opens that article, and isRead(article.id) is true     *)
(* from then on until it is marked unread.                                 *)
C16_ClickOpensAndMarks ==
    (clicked # 0) => (modal = clicked /\ IsReadNow(items[clicked].id))

(* C17.  The feed is fetched once, at startup. The load ends in 'ready',   *)
(* with the items set, the indices built and the view computed, or in      *)
(* 'error', with the error state shown; after that no action fetches       *)
(* again, and the session leaves neither 'ready' nor 'error'.              *)
C17_LoadOnce ==
    /\ [](fetches = 1)
    /\ []((Ready /\ variant \in {"reader", "site"}) =>
              /\ items = feed
              /\ sources = buildSourceIndex(items)
              /\ categories = buildCategoryIndex(items)
              /\ filteredItems = View(items, currentFilter, currentSource,
                                      currentCategory, searchQuery, sortBy, viewNow))
    /\ [][/\ loadState \in {"ready", "error"} => loadState' = loadState
          /\ fetches' = fetches
          /\ (loadState = "loading" /\ loadState' # "loading") =>
                 \/ loadState' = "ready" /\ items' = feed
                 \/ loadState' = "error" /\ list' = ErrorList]_vars

\* the load has failed and the user has since searched and changed the sort
C17_Witness ==
    /\ loadState = "error" /\ fetches = 1
    /\ searchQuery # <<>> /\ sortBy = "rating" /\ Len(feed) >= 1

(* C18.  Once the load has failed, the list shows the 'Unable to load'     *)
(* error state for the rest of the session, whatever filter, source,       *)
(* category, search or sort action follows.                                *)
C18_ErrorPersists ==
    loadState = "error" => list = ErrorList

(* C19.  A feed in which an article lacks a field, or has a malformed      *)
(* value for it, never drives the load into the error state: once the      *)
(* document has been read, the session is ready with every article loaded. *)
C19_MalformedFieldsLoad ==
    (items # <<>> /\ storage.avail) => (loadState = "ready" /\ items = feed)

\* the entries of the source index for one pair, and the articles with it
EntriesOf(type, id) ==
    {e \in 1..Len(sources) : sources[e].type = type /\ sources[e].id = id}
ArticlesOf(type, id) ==
    {k \in 1..Len(items) :
        TypeOf(items[k]) = type /\ IdString(items[k].source_id) = id}
RECURSIVE SumOfCounts(_)
SumOfCounts(idx) ==
    IF idx = <<>> THEN 0 ELSE Head(idx).count + SumOfCounts(Tail(idx))

\* the loaded articles with exactly the pair of the article k: the same
\* source_type ('rss' when absent) and the same source_id value
ExactPairOf(k) ==
    {h \in 1..Len(items) :
        TypeOf(items[h]) = TypeOf(items[k]) /\ items[h].source_id = items[k].source_id}

(* C20, as claimed.  After buildSourceIndex, for every (source_type,       *)
(* source_id) pair, source_type taken as 'rss' when absent, the count of   *)
(* sources[type][id] is the number of loaded articles with exactly that    *)
(* pair; pairs with no article have no entry, and the counts add up to the *)
(* number of loaded articles.                                              *)
C20_Original ==
    (variant \in {"reader", "site"} /\ Ready) =>
        /\ \A k \in 1..Len(items) :
               \E e \in EntriesOf(TypeOf(items[k]), IdString(items[k].source_id)) :
                   sources[e].count = Cardinality(ExactPairOf(k))
        /\ \A e \in 1..Len(sources) :
               ArticlesOf(sources[e].type, sources[e].id) # {}
        /\ SumOfCounts(sources) = Len(items)

(* C20, corrected.  After buildSourceIndex the count of the entry of a     *)
(* (source_type, source_id) pair, source_type taken as 'rss' when absent   *)
(* and source_id as the string it converts to, is the number of loaded     *)
(* articles whose source_type and whose source_id, converted to a string,  *)
(* are that pair: source ids with one string form, such as 1 and '1', are  *)
(* one source.  Every article's pair has one entry, a pair with no article *)
(* has none, and the counts add up to the number of loaded articles.       *)
C20_SourceCounts ==
    (variant \in {"reader", "site"} /\ Ready) =>
        /\ \A e \in 1..Len(sources) :
               /\ sources[e].count =
                      Cardinality(ArticlesOf(sources[e].type, sources[e].id))
               /\ sources[e].count >= 1
               /\ EntriesOf(sources[e].type, sources[e].id) = {e}
        /\ \A k \in 1..Len(items) :
               EntriesOf(TypeOf(items[k]), IdString(items[k].source_id)) # {}
        /\ SumOfCounts(sources) = Len(items)

\* two articles of one source, one of them without a source_type, and a
\* source_id that is a number in one and a string in the other
C20_Witness ==
    /\ variant = "reader" /\ Ready /\ Len(items) = 2
    /\ Len(sources) = 1 /\ sources[1].count = 2
    /\ \E k \in 1..Len(items) : ~items[k].source_type.def
    /\ \E k \in 1..Len(items) : items[k].source_id.kind = "num"

-----------------------------------------------------------------------------
\* the first loaded article of the source (type, id); whether the ids of
\* two sources are array indices, the first the smaller number
FirstSeen(type, id) ==
    CHOOSE k \in ArticlesOf(type, id) : \A h \in ArticlesOf(type, id) : k <= h
IndexBefore(a, b) ==
    IsIndexKey(a) /\ IsIndexKey(b) /\ DigitsLess(KeyDigits(a), KeyDigits(b))
SameList(i, j) == i < j /\ sidebar[i].type = sidebar[j].type

(* C21, as claimed.  Within each source type renderSourceLists lists the   *)
(* sources in non-increasing order of count, and sources with equal counts *)
(* in the order in which they were first met in the loaded list.           *)
C21_Original ==
    (variant = "reader" /\ Ready) =>
        \A i, j \in 1..Len(sidebar) :
            SameList(i, j) =>
                /\ sidebar[i].count >= sidebar[j].count
                /\ sidebar[i].count = sidebar[j].count =>
                       FirstSeen(sidebar[i].type, sidebar[i].id)
                           < FirstSeen(sidebar[j].type, sidebar[j].id)

(* C21, corrected.  Within each source type renderSourceLists lists every  *)
(* source of the type once, in non-increasing order of count; of sources   *)
(* with equal counts, those whose source_id, converted to a string, is an  *)
(* array index (the canonical decimal form of an integer from 0 to         *)
(* 2^32 - 2) come first, in ascending order of the number, and the others, *)
(* larger integers among them, follow in the order in which they were      *)
(* first met in the loaded list.                                           *)
C21_SourceOrder ==
    (variant = "reader" /\ Ready) =>
        /\ \A e \in 1..Len(sources) :
               sources[e].type \in {"rss", "youtube", "blog", "nitter"} =>
                   Cardinality({i \in 1..Len(sidebar) :
                                   /\ sidebar[i].type = sources[e].type
                                   /\ sidebar[i].id = sources[e].id
                                   /\ sidebar[i].count = sources[e].count}) = 1
        /\ \A i \in 1..Len(sidebar) :
               EntriesOf(sidebar[i].type, sidebar[i].id) # {}
        /\ \A i, j \in 1..Len(sidebar) :
               SameList(i, j) =>
                   /\ sidebar[i].count >= sidebar[j].count
                   /\ sidebar[i].count = sidebar[j].count =>
                          IF IsIndexKey(sidebar[i].id)
                          THEN IsIndexKey(sidebar[j].id) =>
                                   IndexBefore(sidebar[i].id, sidebar[j].id)
                          ELSE /\ ~IsIndexKey(sidebar[j].id)
                               /\ FirstSeen(sidebar[i].type, sidebar[i].id)
                                      < FirstSeen(sidebar[j].type, sidebar[j].id)

\* four articles of one type: the source 'a', met last and twice, is listed
\* first; of the sources with one article each, 2 was met before 1 and is
\* listed after it
C21_Witness ==
    /\ variant = "reader" /\ Ready /\ Len(items) = 4
    /\ items[1].source_id = NumId(2) /\ items[2].source_id = NumId(1)
    /\ items[3].source_id = StrId("a") /\ items[4].source_id = StrId("a")
    /\ sidebar = << [type |-> "rss", id |-> "a", count |-> 2],
                    [type |-> "rss", id |-> "1", count |-> 1],
                    [type |-> "rss", id |-> "2", count |-> 1] >>

-----------------------------------------------------------------------------
(* C22.  In the classes that have categories (src/js/app.1766840000.js and *)
(* the second class of src/site/js/app.js) the selection is never          *)
(* partially inconsistent: currentSource is non-null only while            *)
(* currentFilter = 'source', currentCategory is non-null only while        *)
(* currentFilter = 'category'.                                             *)
C22_SelectionConsistent ==
    variant \in {"reader", "site"} =>
        /\ ~currentSource.isNull => currentFilter = "source"
        /\ ~currentCategory.isNull => currentFilter = "category"

-----------------------------------------------------------------------------
(* C23.  Once the feed has loaded, no user action (filter, source or       *)
(* category click, search, sort change, opening an article, mark read or   *)
(* unread) changes the contents or the order of the items list: it stays   *)
(* the list the feed document held, and sorting reorders the view only.    *)
C23_ItemsImmutable ==
    /\ [](Ready => items = feed)
    /\ [][Ready => (Ready' /\ items' = items)]_vars

\* a view sorted by rating into an order that is not the load order, an
\* article having been opened and closed
C23_Witness ==
    /\ Ready /\ Len(items) = 2 /\ items = feed
    /\ sortBy = "rating" /\ filteredItems = <<2, 1>>
    /\ readItems # <<>> /\ modal = 0

-----------------------------------------------------------------------------
(* C24.  In src/js/app.1766840000.js every presentation action re-renders  *)
(* the article list as part of handling its event: whenever a handler has  *)
(* returned, the rows of the list are the view, and the read/unread        *)
(* marking of every row equals isRead of the id of its article.            *)
C24_RowsShowReadState ==
    (variant = "reader" /\ list.kind = "articles") =>
        /\ list.rows = filteredItems
        /\ \A j \in 1..Len(list.rows) :
               list.read[j] = isRead(readItems, items[list.rows[j]].id)

-----------------------------------------------------------------------------
\* the identifiers persisted under 'readItems'
Persisted(st) == Range(ParseReadItems(st).set)

(* C25.  Every markAsRead/markAsUnread of src/js/app.1766840000.js writes  *)
(* back the set that was persisted under 'readItems' immediately before    *)
(* the operation, with the one identifier added or removed, also when      *)
(* another session on the same storage key has written since this session  *)
(* started: no identifier marked by the other session is dropped.          *)
C25_ReadModifyWrite ==
    [][(variant = "reader" /\ lastMark' # lastMark) =>
           Persisted(storage') =
               IF lastMark'.op = "read"
               THEN Persisted(storage) \cup {lastMark'.id}
               ELSE Persisted(storage) \ {lastMark'.id}]_vars

-----------------------------------------------------------------------------
\* the read set a session constructed now on the same storage would hold
NewSession == ParseReadItems(storage).set

(* C26.  In a single session of src/js/app.1766840000.js, after every      *)
(* markAsRead/markAsUnread the array persisted under 'readItems' holds     *)
(* exactly the members of the in-memory read set, each once; a session     *)
(* constructed afterwards on the same storage reports isRead(id) as the    *)
(* old session does, for every article id.                                 *)
C26_PersistedIsReadSet ==
    (variant = "reader" /\ lastMark.op # "none") =>
        /\ storage.payload.kind = "array"
        /\ Len(storage.payload.elems) = Len(readItems)
        /\ \A i, j \in 1..Len(storage.payload.elems) :
               i # j => storage.payload.elems[i] # storage.payload.elems[j]
        /\ ~ParseReadItems(storage).threw
        /\ Range(NewSession) = Range(readItems)
        /\ \A y \in Ids : isRead(NewSession, y) = isRead(readItems, y)
        /\ \A k \in 1..Len(items) :
               isRead(NewSession, items[k].id) = isRead(readItems, items[k].id)

\* two articles marked read one after the other, both persisted
C26_Witness ==
    /\ variant = "reader" /\ lastMark.op = "read"
    /\ readItems = <<NumId(7), NumId(8)>>
    /\ storage.payload.elems = <<JsonNumber("7"), JsonNumber("8")>>

-----------------------------------------------------------------------------
(* C27.  In src/js/app.1766840000.js the handlers are bound before the     *)
(* fetch resolves: the selection starts as currentFilter = 'today',        *)
(* sortBy = 'date' and an empty search; a filter, search or sort action    *)
(* taken while the feed is loading computes an empty view; and when the    *)
(* fetch resolves, the view is computed under the selection current at     *)
(* that moment, which load completion leaves as it is.                     *)
C27_SelectionSurvivesLoad ==
    /\ []((variant = "reader" /\ loadState = "loading") =>
              /\ items = <<>> /\ filteredItems = <<>>
              /\ list.kind \in {"initial", "empty"}
              /\ list.kind = "initial" =>
                     /\ currentFilter = "today" /\ sortBy = "date"
                     /\ searchQuery = <<>>
                     /\ currentSource.isNull /\ currentCategory.isNull)
    /\ [][(variant = "reader" /\ loadState = "loading" /\ loadState' = "ready") =>
              /\ <<currentFilter, currentSource, currentCategory, searchQuery,
                   sortBy>>' = <<currentFilter, currentSource, currentCategory,
                                 searchQuery, sortBy>>
              /\ filteredItems' = applyFilters(feed, currentFilter, currentSource,
                                               currentCategory, searchQuery,
                                               sortBy, now)
              /\ list'.rows = filteredItems']_vars

\* the feed still loading: the user has picked 'all', typed a query and
\* changed the sort, and the list shows the empty view
C27_Witness ==
    /\ variant = "reader" /\ loadState = "loading" /\ Len(feed) = 2
    /\ currentFilter = "all" /\ sortBy = "rating" /\ searchQuery # <<>>
    /\ list.kind = "empty"

-----------------------------------------------------------------------------
\* what a step changes
Changes(v) == v' # v
Selects == Changes(<<currentFilter, currentSource, currentCategory>>)
Marks == Changes(<<readItems, storage>>)

\* what the claim says of the steps other than a change of sort
FrameOfClicksSearchAndMarks ==
    /\ Selects => UNCHANGED <<searchQuery, sortBy, readItems, storage>>
    /\ Changes(searchQuery) =>
           UNCHANGED <<currentFilter, currentSource, currentCategory, sortBy,
                       readItems, storage, modal, items, sources, categories>>
    /\ Changes(sortBy) =>
           UNCHANGED <<currentFilter, currentSource, currentCategory, searchQuery,
                       readItems, storage, modal, items, sources, categories>>
    /\ Marks => UNCHANGED <<filteredItems, currentFilter, currentSource,
                            currentCategory, searchQuery, sortBy, items>>

(* C28, as claimed.  Each action leaves everything outside its own fields  *)
(* unchanged: a timeline, type, source or category click changes none of   *)
(* searchQuery, sortBy or the read set; a search input changes only        *)
(* searchQuery and the view; a sort change changes only sortBy and the     *)
(* order, not the membership, of the view; markAsRead/markAsUnread change  *)
(* only the read set and its persisted copy, neither the view's members    *)
(* nor the selection.                                                      *)
C28_Original ==
    [][variant = "reader" =>
           /\ FrameOfClicksSearchAndMarks
           /\ Changes(sortBy) =>
                  Subset(filteredItems') = Subset(filteredItems)]_vars

(* C28, corrected.  The same, but a sort change leaves the membership of   *)
(* the view as it was only when currentFilter is neither 'today' nor       *)
(* 'week', or the clock reads what it read when the view was computed: the *)
(* sort handler runs the whole of applyFilters, which reads the time.      *)
C28_Frames ==
    [][variant = "reader" =>
           /\ FrameOfClicksSearchAndMarks
           /\ (Changes(sortBy)
               /\ (currentFilter \notin {"today", "week"} \/ now = viewNow)) =>
                  Subset(filteredItems') = Subset(filteredItems)
           /\ Changes(sortBy) =>
                  Subset(filteredItems') =
                      {k \in 1..Len(items) :
                          FilterKeeps(items[k], currentFilter, currentSource,
                                      currentCategory, searchQuery, now)}]_vars

\* a source picked, a query typed, the sort changed, an article opened and
\* marked unread again
C28_Witness ==
    /\ variant = "reader" /\ Ready
    /\ currentFilter = "source" /\ searchQuery # <<>> /\ sortBy = "rating"
    /\ lastMark.op = "unread" /\ Len(filteredItems) = 1 /\ Len(items) = 2

-----------------------------------------------------------------------------
\* the articles the view holds under the timeline filter f, the query q and
\* the time t
TimelineView(f, q, t) ==
    Subset(applyFilters(items, f, NullSource, NullCategory, q, sortBy, t))

(* C29.  For every loaded set, every search query and every current time,  *)
(* every article kept under currentFilter = 'today' is also kept under     *)
(* currentFilter = 'week', articles dated later on the current day than    *)
(* 'now' included; hence the today count shown never exceeds the week      *)
(* count shown.                                                            *)
C29_TodayWithinWeek ==
    (variant = "reader" /\ Ready) =>
        /\ \A raw \in RawQueries : \A t \in Clock :
               TimelineView("today", toLowerCase(raw), t)
                   \subseteq TimelineView("week", toLowerCase(raw), t)
        /\ currentFilter = "today" =>
               Subset(filteredItems) \subseteq TimelineView("week", searchQuery, viewNow)
        /\ counts.today <= counts.week

-----------------------------------------------------------------------------
(* C30.  For every entry (type, id) of the source index, clicking the      *)
(* entry with an empty search yields a view whose size is the item count   *)
(* shown for the entry and whose articles all have the entry's source      *)
(* type, also when the same source_id occurs under two source types.       *)
C30_SourceViewMatchesEntry ==
    (variant = "reader" /\ Ready /\ currentFilter = "source"
     /\ ~currentSource.isNull /\ NoSearch) =>
        /\ \E i \in 1..Len(sidebar) :
               /\ sidebar[i].type = currentSource.type
               /\ sidebar[i].id = currentSource.id
               /\ Len(filteredItems) = sidebar[i].count
        /\ \A j \in 1..Len(filteredItems) :
               TypeOf(items[filteredItems[j]]) = currentSource.type

====
